---- MODULE Spec2Model ----
(***************************************************************************)
(* A model of the mylang compiler passes: the tree model (ast.c), the      *)
(* borrow checker (borrowchecker.c), the semantic analyzer (semantic.c),   *)
(* the code generator (codegen.c) and the driver (main.c).                 *)
(*                                                                         *)
(* A tree is traversed in pre-order.  The model feeds a pass the nodes of  *)
(* the tree one statement at a time; the recursion of the visitors over    *)
(* nested statements is kept as an explicit stack of frames, one frame per *)
(* active call of the visitor on a block, if or while statement.  A block  *)
(* is the item S_BLOCK, its statements, and the item END (the end of the   *)
(* block's statement loop).  An if is the item S_IF followed by the then   *)
(* statement and, when has_else, the else statement; a while is the item   *)
(* S_WHILE followed by the body statement.                                 *)
(***************************************************************************)
EXTENDS Integers, Sequences, FiniteSets, TLC

VARIABLES
    bc,     \* the borrow checker's BCState (borrowchecker.c)
    last,   \* the node the running pass visited last
    n,      \* number of nodes visited
    own,    \* history: per VarInfo of bc.vars, what its declaration borrowed
    gone,   \* history: names of VarInfo entries destroyed at a scope exit
    phase,  \* where the driver is (main.c): args, usage, parse, sem, cg,
            \* exit0, exit1
    prog,   \* the tree parse_program built, in pre-order
    pc,     \* position in prog of the next node of the running pass
    sem,    \* the semantic analyzer's tables (semantic.c)
    cg,     \* the code generator's CG (codegen.c)
    file,   \* the output assembly file: absent, open or closed
    argv,   \* main's arguments after the program name (argc = Len + 1)
    main_debug_borrow,  \* main's flag debug_borrow
    mach    \* the processor running the assembled output: registers,
            \* stack memory, position in the text

vars ==
    <<bc, last, n, own, gone, phase, prog, pc, sem, cg, file, argv,
      main_debug_borrow, mach>>

bcVars == <<bc, last, n, own, gone>>

driverVars == <<phase, prog, pc, sem, cg, file>>

cliVars == <<argv, main_debug_borrow>>

runVars == <<mach>>

(***************************************************************************)
(* Bounds of the model.                                                    *)
(***************************************************************************)
\* number of tree nodes (statement items) a traversal is fed
MaxVisits == 6
\* number of nodes parse_program puts under the root block
MaxStmts == 3
\* nesting of visitor frames (blocks, if and while bodies)
MaxNest == 3
\* the most arguments of a call in SpecInfer
MaxArgs == 2
\* number of statement nodes of a tree of SpecAST (the root block included)
MaxNodes == 5
\* number of statements in the root block of a tree of SpecCG
MaxCGStmts == 2
\* number of command-line arguments after the program name
MaxArgc == 4

\* statements of a program that is compiled and run
MaxRunStmts == 3

(***************************************************************************)
(* common.h: Type { kind, inner }.  A type is the chain of its kinds,      *)
(* outermost first; inner = NULL is the end of the chain.                  *)
(***************************************************************************)
mktype(k) == <<k>>

mkref(k, inner) == <<k>> \o inner

TypeKindOf(t) == Head(t)

(***************************************************************************)
(* ast.c: expression constructors.  One record shape for every kind:       *)
(* name is ident / call.name / str_val, val is int_val, args are the       *)
(* children (call.args, inner, range.start/end, array.items, index).       *)
(***************************************************************************)
expr_int(v) ==
    [kind |-> "E_INT_LIT", name |-> "", val |-> v, args |-> <<>>,
     type |-> mktype("TY_INT")]

expr_str(s) ==
    [kind |-> "E_STR_LIT", name |-> s, val |-> 0, args |-> <<>>,
     type |-> mktype("TY_STRING")]

expr_ident(s) ==
    [kind |-> "E_IDENT", name |-> s, val |-> 0, args |-> <<>>,
     type |-> mktype("TY_UNKNOWN")]

expr_addr(inner, mut) ==
    [kind |-> IF mut THEN "E_MUTADDR" ELSE "E_ADDR", name |-> "", val |-> 0,
     args |-> <<inner>>, type |-> mktype("TY_UNKNOWN")]

expr_call(name, args) ==
    [kind |-> "E_CALL", name |-> name, val |-> 0, args |-> args,
     type |-> mktype("TY_UNKNOWN")]

expr_range(start, end) ==
    [kind |-> "E_RANGE", name |-> "", val |-> 0, args |-> <<start, end>>,
     type |-> mktype("TY_UNKNOWN")]

expr_array(items) ==
    [kind |-> "E_ARRAY_LIT", name |-> "", val |-> 0, args |-> items,
     type |-> mktype("TY_UNKNOWN")]

expr_index(array, index) ==
    [kind |-> "E_INDEX", name |-> "", val |-> 0, args |-> <<array, index>>,
     type |-> mktype("TY_UNKNOWN")]

(***************************************************************************)
(* ast.c: statement constructors.  expr is the statement's expression      *)
(* (decl.init, expr, ifs.cond, wh.cond, fors.iter) as a sequence of        *)
(* length 0 (NULL) or 1.  body is the body of a for statement, which no    *)
(* pass descends into.                                                     *)
(***************************************************************************)
stmt_decl(name, t, init) ==
    [kind |-> "S_DECL", name |-> name, type |-> t, expr |-> init,
     has_else |-> FALSE, body |-> <<>>]

stmt_expr(e) ==
    [kind |-> "S_EXPR", name |-> "", type |-> mktype("TY_UNKNOWN"),
     expr |-> <<e>>, has_else |-> FALSE, body |-> <<>>]

stmt_block ==
    [kind |-> "S_BLOCK", name |-> "", type |-> mktype("TY_UNKNOWN"),
     expr |-> <<>>, has_else |-> FALSE, body |-> <<>>]

stmt_if(cond, has_else) ==
    [kind |-> "S_IF", name |-> "", type |-> mktype("TY_UNKNOWN"),
     expr |-> <<cond>>, has_else |-> has_else, body |-> <<>>]

stmt_while(cond) ==
    [kind |-> "S_WHILE", name |-> "", type |-> mktype("TY_UNKNOWN"),
     expr |-> <<cond>>, has_else |-> FALSE, body |-> <<>>]

stmt_for(var, iter, body) ==
    [kind |-> "S_FOR", name |-> var, type |-> mktype("TY_UNKNOWN"),
     expr |-> <<iter>>, has_else |-> FALSE, body |-> body]

\* the end of a block's statement list (not a node: the block's loop ends)
BlockEnd ==
    [kind |-> "END", name |-> "", type |-> mktype("TY_UNKNOWN"),
     expr |-> <<>>, has_else |-> FALSE, body |-> <<>>]

\* the value of `last` before any node was visited
NoStmt ==
    [kind |-> "NONE", name |-> "", type |-> mktype("TY_UNKNOWN"),
     expr |-> <<>>, has_else |-> FALSE, body |-> <<>>]

(***************************************************************************)
(* The recursion of a visitor over nested statements, as a stack of        *)
(* frames (top = last element).  A frame is the visitor call that is       *)
(* waiting for a child statement: BLOCK (in the loop over block.stmts),    *)
(* THEN / THEN_E (visiting ifs.then_s, without / with an else_s to come),  *)
(* ELSE (visiting ifs.else_s), WHILE (visiting wh.body).  lbl is the label *)
(* number the code generator holds in that call (0 in the other passes).   *)
(***************************************************************************)
Frame(f, lbl) == [f |-> f, lbl |-> lbl]

Top(stack) == stack[Len(stack)]

Pop(stack) == SubSeq(stack, 1, Len(stack) - 1)

\* may `item` be the next node of the traversal under this stack?
\* The root is always a block (parser.c: parse_program wraps the statements).
Expected(stack, item) ==
    /\ item.kind # "NONE"
    /\ stack = <<>> => item.kind = "S_BLOCK"
    /\ item.kind = "END" => (stack # <<>> /\ Top(stack).f = "BLOCK")
    /\ item.kind \in {"S_BLOCK", "S_IF", "S_WHILE"} => Len(stack) < MaxNest

(***************************************************************************)
(* borrowchecker.c: the borrow checker.                                    *)
(*                                                                         *)
(* bc is the BCState of one borrow_check call: vars is the VarInfo list    *)
(* (head first), depth the lexical nesting level, stack the active         *)
(* visit_stmt calls.  status is "run" while the traversal is running,      *)
(* "ok" once borrow_check has returned, and otherwise the message bc_error *)
(* printed before exit(1).                                                 *)
(***************************************************************************)
VarInfo(name, t, depth) ==
    [name |-> name, type |-> t, valid |-> TRUE, imm_count |-> 0,
     mut_borrowed |-> FALSE, scope_depth |-> depth]

BCInit == [vars |-> <<>>, depth |-> 0, stack |-> <<>>, status |-> "run"]

\* index in vs of the first entry named `name`, 0 for NULL
find_var(vs, name) ==
    IF \E i \in 1..Len(vs) : vs[i].name = name
    THEN CHOOSE i \in 1..Len(vs) :
            /\ vs[i].name = name
            /\ \A j \in 1..(i - 1) : vs[j].name # name
    ELSE 0

\* prepend a fresh entry at the current depth
add_var(s, name, t) ==
    [s EXCEPT !.vars = <<VarInfo(name, t, s.depth)>> \o s.vars]

\* print the diagnostic and exit(1)
bc_error(s, msg) == [s EXCEPT !.status = msg]

\* visit_expr: "" when the expression passes, else the message of the
\* first bc_error met (arguments of a call are visited in order)
RECURSIVE visit_expr(_, _)
RECURSIVE visit_args(_, _, _)
visit_expr(vs, e) ==
    CASE e.kind = "E_IDENT" ->
            LET i == find_var(vs, e.name) IN
            IF i = 0 THEN "use of undeclared variable"
            ELSE IF ~vs[i].valid THEN "use of moved value"
            ELSE ""
      [] e.kind = "E_CALL" -> visit_args(vs, e.args, 1)
      [] e.kind \in {"E_ADDR", "E_MUTADDR"} -> visit_expr(vs, e.args[1])
      [] OTHER -> ""

visit_args(vs, args, i) ==
    IF i > Len(args) THEN ""
    ELSE LET r == visit_expr(vs, args[i]) IN
         IF r # "" THEN r ELSE visit_args(vs, args, i + 1)

\* faulty variant: the move check forgets the shared borrows
move_conflict_M(v) == v.mut_borrowed

\* "Check if source is currently borrowed" (let x = y)
move_conflict(v) == v.imm_count > 0 \/ v.mut_borrowed

\* faulty variant: a shared borrow also conflicts with an earlier shared borrow
shared_conflict_M(v) == v.mut_borrowed \/ v.imm_count > 0

\* "Conflict: Existing mutable borrow" (let r = &x)
shared_conflict(v) == v.mut_borrowed

\* faulty variant: the exclusive borrow forgets the shared borrows
mut_conflict_M(v) == v.mut_borrowed

\* "Conflict: Any existing borrow (shared or mutable)" (let r = &mut x)
mut_conflict(v) == v.imm_count > 0 \/ v.mut_borrowed

\* faulty variant: a borrowed value can be moved
decl_move_M(s, src) ==
    LET i == find_var(s.vars, src) IN
    IF i = 0 THEN bc_error(s, "use of undeclared")
    ELSE IF ~s.vars[i].valid THEN bc_error(s, "use of moved value")
    ELSE [s EXCEPT !.vars[i].valid = FALSE]

\* RULE: MOVE SEMANTICS (let x = y)
decl_move(s, src) ==
    LET i == find_var(s.vars, src) IN
    IF i = 0 THEN bc_error(s, "use of undeclared")
    ELSE IF ~s.vars[i].valid THEN bc_error(s, "use of moved value")
    ELSE IF move_conflict(s.vars[i])
         THEN bc_error(s, "cannot move because it is borrowed")
    ELSE [s EXCEPT !.vars[i].valid = FALSE]

\* faulty variant: a moved value can still be borrowed
decl_shared_M(s, inner) ==
    IF inner.kind # "E_IDENT"
    THEN bc_error(s, "cannot borrow from non-identifier")
    ELSE LET i == find_var(s.vars, inner.name) IN
         IF i = 0 THEN bc_error(s, "borrow of undeclared")
         ELSE IF s.vars[i].mut_borrowed
              THEN bc_error(s, "cannot shared-borrow while mutably borrowed")
         ELSE [s EXCEPT !.vars[i].imm_count = @ + 1]

\* RULE: SHARED BORROW (let r = &x)
decl_shared(s, inner) ==
    IF inner.kind # "E_IDENT"
    THEN bc_error(s, "cannot borrow from non-identifier")
    ELSE LET i == find_var(s.vars, inner.name) IN
         IF i = 0 THEN bc_error(s, "borrow of undeclared")
         ELSE IF ~s.vars[i].valid THEN bc_error(s, "borrow of moved value")
         ELSE IF shared_conflict(s.vars[i])
              THEN bc_error(s, "cannot shared-borrow while mutably borrowed")
         ELSE [s EXCEPT !.vars[i].imm_count = @ + 1]

\* RULE: MUTABLE BORROW (let r = &mut x)
decl_mut(s, inner) ==
    IF inner.kind # "E_IDENT"
    THEN bc_error(s, "cannot mutably borrow non-identifier")
    ELSE LET i == find_var(s.vars, inner.name) IN
         IF i = 0 THEN bc_error(s, "mut borrow of undeclared")
         ELSE IF ~s.vars[i].valid
              THEN bc_error(s, "mut borrow of moved value")
         ELSE IF mut_conflict(s.vars[i])
              THEN bc_error(s, "cannot mutably borrow (already borrowed)")
         ELSE [s EXCEPT !.vars[i].mut_borrowed = TRUE]

\* faulty variant: a reference passed to a call counts as a shared borrow
decl_init_M(s, init) ==
    CASE init.kind = "E_IDENT" -> decl_move(s, init.name)
      [] init.kind = "E_ADDR" -> decl_shared(s, init.args[1])
      [] init.kind = "E_MUTADDR" -> decl_mut(s, init.args[1])
      [] init.kind = "E_CALL" /\ init.args # <<>>
            /\ init.args[1].kind = "E_ADDR" ->
               decl_shared(s, init.args[1].args[1])
      [] OTHER -> LET r == visit_expr(s.vars, init) IN
                  IF r = "" THEN s ELSE bc_error(s, r)

\* the initializer part of case S_DECL
decl_init(s, init) ==
    CASE init.kind = "E_IDENT" -> decl_move(s, init.name)
      [] init.kind = "E_ADDR" -> decl_shared(s, init.args[1])
      [] init.kind = "E_MUTADDR" -> decl_mut(s, init.args[1])
      [] OTHER -> LET r == visit_expr(s.vars, init) IN
                  IF r = "" THEN s ELSE bc_error(s, r)

\* faulty variant: the scope exit frees nothing
scope_cleanup_M(vs, depth) == vs

\* "Scope Exit: Cleanup variables defined at this depth"
scope_cleanup(vs, depth) ==
    SelectSeq(vs, LAMBDA v : v.scope_depth # depth)

\* faulty variant: else_s is not visited when then_s has returned
RECURSIVE bc_unwind_M(_)
bc_unwind_M(stack) ==
    IF stack = <<>> THEN <<>>
    ELSE CASE Top(stack).f = "BLOCK" -> stack
           [] OTHER -> bc_unwind_M(Pop(stack))

\* the visit_stmt calls that return once a child statement has returned:
\* an if goes on to its else_s, or returns; a while returns; a block goes
\* on with its loop
RECURSIVE bc_unwind(_)
bc_unwind(stack) ==
    IF stack = <<>> THEN <<>>
    ELSE CASE Top(stack).f = "BLOCK" -> stack
           [] Top(stack).f = "THEN_E" -> Pop(stack) \o <<Frame("ELSE", 0)>>
           [] OTHER -> bc_unwind(Pop(stack))

\* a statement has returned: unwind; borrow_check returns when the root has
bc_return(s) ==
    LET st == bc_unwind(s.stack) IN
    [s EXCEPT !.stack = st,
              !.status = IF s.status = "run" /\ st = <<>> THEN "ok" ELSE @]

\* case S_DECL
visit_decl(s, st) ==
    LET s1 == IF st.expr = <<>> THEN s ELSE decl_init(s, st.expr[1]) IN
    IF s1.status # "run" THEN s1
    ELSE bc_return(add_var(s1, st.name, st.type))

\* case S_BLOCK, entry: depth++ and the loop over the statements starts
visit_block(s) ==
    [s EXCEPT !.depth = @ + 1, !.stack = Append(@, Frame("BLOCK", 0))]

\* faulty variant: the visit of a block does not return
visit_block_end_M(s) ==
    [s EXCEPT !.vars = scope_cleanup(@, s.depth), !.depth = @ - 1]

\* case S_BLOCK, after the loop: cleanup, depth--
visit_block_end(s) ==
    bc_return([s EXCEPT !.vars = scope_cleanup(@, s.depth),
                        !.depth = @ - 1,
                        !.stack = Pop(@)])

\* case S_IF: the condition, then then_s (and else_s) are visited
visit_if(s, st) ==
    LET r == visit_expr(s.vars, st.expr[1]) IN
    IF r # "" THEN bc_error(s, r)
    ELSE [s EXCEPT !.stack =
             Append(@, Frame(IF st.has_else THEN "THEN_E" ELSE "THEN", 0))]

\* case S_WHILE: the condition, then the body is visited (once)
visit_while(s, st) ==
    LET r == visit_expr(s.vars, st.expr[1]) IN
    IF r # "" THEN bc_error(s, r)
    ELSE [s EXCEPT !.stack = Append(@, Frame("WHILE", 0))]

\* default: every other statement kind (S_EXPR, S_FOR, S_RETURN, ...)
visit_default(s) == bc_return(s)

\* visit_stmt on the next node of the traversal
visit_stmt(s, st) ==
    CASE st.kind = "S_DECL" -> visit_decl(s, st)
      [] st.kind = "S_BLOCK" -> visit_block(s)
      [] st.kind = "END" -> visit_block_end(s)
      [] st.kind = "S_IF" -> visit_if(s, st)
      [] st.kind = "S_WHILE" -> visit_while(s, st)
      [] OTHER -> visit_default(s)

(***************************************************************************)
(* semantic.c: the semantic analyzer.                                      *)
(*                                                                         *)
(* A SymTable is the list its head points to (newest Sym first).  tabs is  *)
(* the chain of tables of the active sem_stmt calls: tabs[1] is st of      *)
(* semantic_check, every active S_BLOCK call adds its `local`.  status is  *)
(* "run", "ok" (semantic_check returned) or the message of errorf.         *)
(* Source positions (line, col, defined_line) only feed the diagnostics    *)
(* and are left out.                                                       *)
(***************************************************************************)
Sym(name, ty) == [name |-> name, type |-> ty]

SemInit == [tabs |-> << <<>> >>, stack |-> <<>>, status |-> "run"]

sym_add(tab, name, ty) == <<Sym(name, ty)>> \o tab

sym_find(tab, name) ==
    IF \E i \in 1..Len(tab) : tab[i].name = name
    THEN CHOOSE i \in 1..Len(tab) :
            /\ tab[i].name = name
            /\ \A j \in 1..(i - 1) : tab[j].name # name
    ELSE 0

\* errorf(...); exit(1)
sem_error(s, msg) == [s EXCEPT !.status = msg]

\* infer_expr returns the node as annotated so far and the message of the
\* errorf that ended the process ("" when it returned); the inferred Type
\* is the type field of the returned node
InferOk(e, t) == [e |-> [e EXCEPT !.type = t], err |-> ""]

InferErr(e, msg) == [e |-> e, err |-> msg]

\* faulty variant: a reference is accepted as clone's argument too
clone_arg_ok_M(arg) == TypeKindOf(arg) \in {"TY_STRING", "TY_REF"}

\* clone: "only implemented for string types"
clone_arg_ok(arg) == TypeKindOf(arg) = "TY_STRING"

RECURSIVE infer_expr(_, _)
infer_expr(e, tab) ==
    CASE e.kind = "E_INT_LIT" -> InferOk(e, mktype("TY_INT"))
      [] e.kind = "E_STR_LIT" -> InferOk(e, mktype("TY_STRING"))
      [] e.kind = "E_IDENT" ->
            LET i == sym_find(tab, e.name) IN
            IF i = 0 THEN InferErr(e, "use of undeclared variable")
            ELSE InferOk(e, tab[i].type)
      [] e.kind \in {"E_ADDR", "E_MUTADDR"} ->
            LET r == infer_expr(e.args[1], tab)
                e1 == [e EXCEPT !.args[1] = r.e]
            IN  IF r.err # "" THEN InferErr(e1, r.err)
                ELSE InferOk(e1, mkref(IF e.kind = "E_ADDR" THEN "TY_REF"
                                       ELSE "TY_MUTREF", r.e.type))
      [] e.kind = "E_CALL" /\ e.name = "clone" ->
            IF Len(e.args) # 1
            THEN InferErr(e, "clone() expects exactly 1 argument")
            ELSE LET r == infer_expr(e.args[1], tab)
                     e1 == [e EXCEPT !.args[1] = r.e]
                 IN  IF r.err # "" THEN InferErr(e1, r.err)
                     ELSE IF ~clone_arg_ok(r.e.type)
                     THEN InferErr(e1, "clone() only implemented for string types")
                     ELSE InferOk(e1, mktype("TY_STRING"))
      [] e.kind = "E_CALL" /\ e.name = "print" ->
            IF Len(e.args) # 1
            THEN InferErr(e, "print() expects exactly 1 argument")
            ELSE LET r == infer_expr(e.args[1], tab)
                     e1 == [e EXCEPT !.args[1] = r.e]
                 IN  IF r.err # "" THEN InferErr(e1, r.err)
                     ELSE InferOk(e1, mktype("TY_INT"))
      [] e.kind = "E_CALL" -> InferErr(e, "Unknown function")
      [] OTHER -> InferErr(e, "Semantic: unsupported expr kind")

\* faulty variant: the declared type is compared only when it is a reference type
types_compatible_M(t, init_t) ==
    \/ TypeKindOf(t) = TypeKindOf(init_t)
    \/ TypeKindOf(t) # "TY_REF"

\* "If declared type exists, check compatibility (basic)"
types_compatible(t, init_t) ==
    \/ TypeKindOf(t) = TypeKindOf(init_t)
    \/ (TypeKindOf(t) = "TY_REF" /\ TypeKindOf(init_t) = "TY_REF")

\* faulty variant: the declared type is bound even when it is unknown
adopt_type_M(t, init_t) == t

\* "If declared TY_UNKNOWN, adopt inferred type"
adopt_type(t, init_t) == IF TypeKindOf(t) = "TY_UNKNOWN" THEN init_t ELSE t

\* the sem_stmt calls that return once a child statement has returned
RECURSIVE sem_unwind(_)
sem_unwind(stack) ==
    IF stack = <<>> THEN <<>>
    ELSE CASE Top(stack).f = "BLOCK" -> stack
           [] Top(stack).f = "THEN_E" -> Pop(stack) \o <<Frame("ELSE", 0)>>
           [] OTHER -> sem_unwind(Pop(stack))

\* faulty variant: what a branch or loop body declared is dropped when
\* the if or while returns
sem_return_M(s) ==
    LET st == sem_unwind(s.stack)
        branch == s.stack # <<>> /\ Top(s.stack).f # "BLOCK"
    IN  [s EXCEPT !.stack = st,
                  !.tabs[Len(s.tabs)] = IF branch /\ @ # <<>> THEN Tail(@)
                                        ELSE @,
                  !.status = IF s.status = "run" /\ st = <<>> THEN "ok"
                             ELSE @]

\* a statement has returned; semantic_check returns when the root has
sem_return(s) ==
    LET st == sem_unwind(s.stack) IN
    [s EXCEPT !.stack = st,
              !.status = IF s.status = "run" /\ st = <<>> THEN "ok" ELSE @]

\* the table the running sem_stmt call was handed
CurTab(s) == s.tabs[Len(s.tabs)]

\* sem_stmt returns the analyzer's state and the node as annotated
SemRes(s, st) == [s |-> s, st |-> st]

\* case S_DECL
sem_decl(s, st) ==
    IF st.expr = <<>>
    THEN SemRes(sem_return([s EXCEPT !.tabs[Len(s.tabs)] =
                                sym_add(@, st.name, st.type)]), st)
    ELSE LET r == infer_expr(st.expr[1], CurTab(s))
             st1 == [st EXCEPT !.expr[1] = r.e]
             init_t == r.e.type
         IN  IF r.err # "" THEN SemRes(sem_error(s, r.err), st1)
             ELSE IF /\ TypeKindOf(st.type) # "TY_UNKNOWN"
                     /\ ~types_compatible(st.type, init_t)
             THEN SemRes(sem_error(s, "Type mismatch in declaration"), st1)
             ELSE SemRes(sem_return([s EXCEPT !.tabs[Len(s.tabs)] =
                            sym_add(@, st.name, adopt_type(st.type, init_t))]),
                         st1)

\* faulty variant: the error is reported and the analysis goes on
sem_expr_M(s, st) ==
    LET r == infer_expr(st.expr[1], CurTab(s))
        st1 == [st EXCEPT !.expr[1] = r.e]
    IN  SemRes(sem_return(s), st1)

\* case S_EXPR
sem_expr(s, st) ==
    LET r == infer_expr(st.expr[1], CurTab(s))
        st1 == [st EXCEPT !.expr[1] = r.e]
    IN  IF r.err # "" THEN SemRes(sem_error(s, r.err), st1)
        ELSE SemRes(sem_return(s), st1)

\* case S_BLOCK, entry: local.head = sym->head
sem_block(s, st) ==
    SemRes([s EXCEPT !.tabs = Append(@, CurTab(s)),
                     !.stack = Append(@, Frame("BLOCK", 0))], st)

\* faulty variant: the block's declarations are left in the caller's table
sem_block_end_M(s, st) ==
    SemRes(sem_return([s EXCEPT
               !.tabs = [Pop(@) EXCEPT ![Len(@) - 1] = s.tabs[Len(s.tabs)]],
               !.stack = Pop(@)]), st)

\* case S_BLOCK, after the loop: local is dropped
sem_block_end(s, st) ==
    SemRes(sem_return([s EXCEPT !.tabs = Pop(@), !.stack = Pop(@)]), st)

\* case S_IF and case S_WHILE: the condition, then the children on `sym`
sem_cond(s, st, frame) ==
    LET r == infer_expr(st.expr[1], CurTab(s))
        st1 == [st EXCEPT !.expr[1] = r.e]
    IN  IF r.err # "" THEN SemRes(sem_error(s, r.err), st1)
        ELSE SemRes([s EXCEPT !.stack = Append(@, Frame(frame, 0))], st1)

\* sem_stmt on the next node of the traversal
sem_stmt(s, st) ==
    CASE st.kind = "S_DECL" -> sem_decl(s, st)
      [] st.kind = "S_EXPR" -> sem_expr(s, st)
      [] st.kind = "S_BLOCK" -> sem_block(s, st)
      [] st.kind = "END" -> sem_block_end(s, st)
      [] st.kind = "S_IF" ->
            sem_cond(s, st, IF st.has_else THEN "THEN_E" ELSE "THEN")
      [] st.kind = "S_WHILE" -> sem_cond(s, st, "WHILE")
      [] OTHER -> SemRes(sem_return(s), st)

(***************************************************************************)
(* codegen.c: the code generator.                                          *)
(*                                                                         *)
(* cg is the CG of one codegen_function call.  out is the text written to  *)
(* g.out, one record per line: op is the line with its numbers left out,   *)
(* a its symbol operand, k its number (a literal id, a label number, a     *)
(* frame offset, an immediate).  slots and lits are the VSlot and Literal  *)
(* lists (newest first).  abi is the target the generator was built for    *)
(* (#ifdef _WIN32).  status is "none" before codegen_function is entered,  *)
(* "run", "ok" (it returned 0), "fopen" (it returned 1) or the message of  *)
(* errorf.                                                                 *)
(***************************************************************************)
CGNone ==
    [status |-> "none", abi |-> "sysv", out |-> <<>>, stack_size |-> 0,
     slots |-> <<>>, label_counter |-> 0, debug_borrow |-> FALSE,
     lits |-> <<>>, lit_count |-> 0, stack |-> <<>>]

CGInit(abi, debug_borrow) ==
    [CGNone EXCEPT !.status = "run", !.abi = abi,
                   !.debug_borrow = debug_borrow]

I(op, a, k) == [op |-> op, a |-> a, k |-> k]

emit(g, lines) == [g EXCEPT !.out = @ \o lines]

\* errorf(...): exit(1)
cg_error(g, msg) == [g EXCEPT !.status = msg]

\* faulty variant: the oldest slot of that name is returned
cg_find_M(slots, name) ==
    IF \E i \in 1..Len(slots) : slots[i].name = name
    THEN CHOOSE i \in 1..Len(slots) :
            /\ slots[i].name = name
            /\ \A j \in (i + 1)..Len(slots) : slots[j].name # name
    ELSE 0

cg_find(slots, name) ==
    IF \E i \in 1..Len(slots) : slots[i].name = name
    THEN CHOOSE i \in 1..Len(slots) :
            /\ slots[i].name = name
            /\ \A j \in 1..(i - 1) : slots[j].name # name
    ELSE 0

\* faulty variant: the new slot is not linked to the older ones
cg_add_M(g, name, t) ==
    [g EXCEPT !.stack_size = @ + 8,
              !.slots = <<[name |-> name, offset |-> -(g.stack_size + 8),
                           type |-> t]>>]

cg_add(g, name, t) ==
    [g EXCEPT !.stack_size = @ + 8,
              !.slots = <<[name |-> name, offset |-> -(g.stack_size + 8),
                           type |-> t]>> \o @]

\* faulty variant: the counter is only raised for the first label
cg_new_label_M(g) == [g EXCEPT !.label_counter = 1]

cg_new_label(g) == [g EXCEPT !.label_counter = @ + 1]

\* faulty variant: a text already in the pool is not recorded again
cg_register_literal_M(g, str) ==
    [g EXCEPT !.lit_count = @ + 1,
              !.lits = IF \E i \in 1..Len(g.lits) : g.lits[i].s = str THEN @
                       ELSE <<[s |-> str, id |-> g.lit_count + 1]>> \o @]

cg_register_literal(g, str) ==
    [g EXCEPT !.lit_count = @ + 1,
              !.lits = <<[s |-> str, id |-> g.lit_count + 1]>> \o @]

\* faulty variant: the flag leaves a trace in the output
emit_prologue_M(g) ==
    emit(g, (IF g.debug_borrow THEN <<I(";", "debug borrow", 0)>> ELSE <<>>)
            \o <<I("global", "main", 0),
                  I("extern", "runtime_new_string", 0),
                  I("extern", "runtime_print_int", 0),
                  I("extern", "runtime_print_string", 0),
                  I("extern", "runtime_clone_string", 0),
                  I("section", ".text", 0),
                  I("label", "main", 0),
                  I("push", "rbp", 0),
                  I("mov", "rbp, rsp", 0)>>)

emit_prologue(g) ==
    emit(g, <<I("global", "main", 0),
              I("extern", "runtime_new_string", 0),
              I("extern", "runtime_print_int", 0),
              I("extern", "runtime_print_string", 0),
              I("extern", "runtime_clone_string", 0),
              I("section", ".text", 0),
              I("label", "main", 0),
              I("push", "rbp", 0),
              I("mov", "rbp, rsp", 0)>>)

emit_epilogue(g) ==
    emit(g, <<I("mov", "eax, 0", 0),
              I("mov", "rsp, rbp", 0),
              I("pop", "rbp", 0),
              I("ret", "", 0)>>)

\* faulty variant: the shadow space is released but never reserved
runtime_call_M(g, routine) ==
    IF g.abi = "win64"
    THEN emit(g, <<I("mov", "rcx, rax", 0),
                   I("call", routine, 0),
                   I("add rsp", "", 32)>>)
    ELSE emit(g, <<I("mov", "rdi, rax", 0),
                   I("call", routine, 0)>>)

\* the call of a runtime routine with its argument in rax: the argument
\* register and the shadow space of the target
runtime_call(g, routine) ==
    IF g.abi = "win64"
    THEN emit(g, <<I("mov", "rcx, rax", 0),
                   I("sub rsp", "", 32),
                   I("call", routine, 0),
                   I("add rsp", "", 32)>>)
    ELSE emit(g, <<I("mov", "rdi, rax", 0),
                   I("call", routine, 0)>>)

cg_emit_string_literal(g, litid) ==
    IF g.abi = "win64"
    THEN emit(g, <<I(";", "create string literal (win64)", litid),
                   I("lea rcx, [rel literal_k]", "", litid),
                   I("sub rsp", "", 32),
                   I("call", "runtime_new_string", 0),
                   I("add rsp", "", 32),
                   I("push", "rax", 0)>>)
    ELSE emit(g, <<I(";", "create string literal (sysv)", litid),
                   I("lea rdi, [rel literal_k]", "", litid),
                   I("call", "runtime_new_string", 0),
                   I("push", "rax", 0)>>)

\* faulty variant: the print variant is chosen from the node kind alone
print_routine_M(arg) ==
    IF arg # <<>> /\ arg[1].kind = "E_STR_LIT" THEN "runtime_print_string"
    ELSE "runtime_print_int"

\* "choose print variant using e->type when available"; arg is the
\* argument node, <<>> for NULL
print_routine(arg) ==
    IF arg # <<>> /\ TypeKindOf(arg[1].type) = "TY_STRING"
    THEN "runtime_print_string"
    ELSE IF arg # <<>> /\ TypeKindOf(arg[1].type) = "TY_INT"
    THEN "runtime_print_int"
    ELSE IF arg # <<>> /\ arg[1].kind = "E_STR_LIT"
    THEN "runtime_print_string"
    ELSE "runtime_print_int"

emit_print_call_for_expr(g, arg) ==
    emit(runtime_call(emit(g, <<I("pop", "rax", 0)>>), print_routine(arg)),
         <<I("push imm", "", 0)>>)

\* faulty variant: any operand of & is taken for a variable
addr_operand_ok_M(e) == e.args # <<>>

\* "& expects identifier": the operand exists and is a bare identifier
addr_operand_ok(e) == e.args # <<>> /\ e.args[1].kind = "E_IDENT"

RECURSIVE cg_emit_expr(_, _)
RECURSIVE cg_emit_args(_, _, _)
cg_emit_expr(g, e) ==
    CASE e.kind = "E_INT_LIT" ->
            emit(g, <<I("mov rax, imm", "", e.val), I("push", "rax", 0)>>)
      [] e.kind = "E_STR_LIT" ->
            LET g1 == cg_register_literal(g, e.name) IN
            cg_emit_string_literal(g1, g1.lit_count)
      [] e.kind = "E_IDENT" ->
            LET i == cg_find(g.slots, e.name) IN
            IF i = 0 THEN cg_error(g, "codegen: unknown identifier")
            ELSE emit(g, <<I("mov rax, [rbp+k]", "", g.slots[i].offset),
                           I("push", "rax", 0)>>)
      [] e.kind = "E_CALL" ->
            LET g1 == cg_emit_args(g, e.args, Len(e.args)) IN
            IF g1.status # "run" THEN g1
            ELSE IF e.name = "print"
            THEN emit_print_call_for_expr(
                     g1, IF Len(e.args) > 0 THEN <<e.args[1]>> ELSE <<>>)
            ELSE IF e.name = "clone"
            THEN emit(runtime_call(emit(g1, <<I("pop", "rax", 0)>>),
                                   "runtime_clone_string"),
                      <<I("push", "rax", 0)>>)
            ELSE cg_error(g1, "codegen: unknown function")
      [] e.kind \in {"E_ADDR", "E_MUTADDR"} ->
            IF ~addr_operand_ok(e)
            THEN cg_error(g, "codegen: & expects identifier")
            ELSE LET i == cg_find(g.slots, e.args[1].name) IN
                 IF i = 0 THEN cg_error(g, "codegen: unknown var in &")
                 ELSE emit(g, <<I("lea rax, [rbp+k]", "", g.slots[i].offset),
                                I("push", "rax", 0)>>)
      [] OTHER -> cg_error(g, "codegen: unsupported expr kind")

\* "evaluate args right-to-left"
cg_emit_args(g, args, i) ==
    IF i = 0 THEN g
    ELSE LET g1 == cg_emit_expr(g, args[i]) IN
         IF g1.status # "run" THEN g1 ELSE cg_emit_args(g1, args, i - 1)

\* the cg_emit_stmt calls that go on once a child statement has returned:
\* an if emits its jump and labels, a while its back jump and end label
RECURSIVE cg_unwind(_)
cg_unwind(g) ==
    IF g.stack = <<>> THEN g
    ELSE LET top == Top(g.stack) IN
         CASE top.f = "BLOCK" -> g
           [] top.f = "THEN_E" ->
                 [emit(g, <<I("jmp", ".Lend", top.lbl),
                            I("label", ".Lelse", top.lbl)>>)
                  EXCEPT !.stack = Pop(@) \o <<Frame("ELSE", top.lbl)>>]
           [] top.f = "THEN" ->
                 cg_unwind([emit(g, <<I("jmp", ".Lend", top.lbl),
                                      I("label", ".Lelse", top.lbl),
                                      I("label", ".Lend", top.lbl)>>)
                            EXCEPT !.stack = Pop(@)])
           [] top.f = "ELSE" ->
                 cg_unwind([emit(g, <<I("label", ".Lend", top.lbl)>>)
                            EXCEPT !.stack = Pop(@)])
           [] OTHER ->
                 cg_unwind([emit(g, <<I("jmp", ".Lwhile", top.lbl),
                                      I("label", ".Lendwhile", top.lbl)>>)
                            EXCEPT !.stack = Pop(@)])

\* case S_DECL
cg_decl(g, st) ==
    LET g1 == cg_add(g, st.name, st.type)
        off == g1.slots[cg_find(g1.slots, st.name)].offset
    IN  IF st.expr # <<>>
        THEN LET g2 == cg_emit_expr(g1, st.expr[1]) IN
             IF g2.status # "run" THEN g2
             ELSE cg_unwind(emit(g2, <<I("pop", "rax", 0),
                                       I("mov [rbp+k], rax", "", off)>>))
        ELSE cg_unwind(emit(g1, <<I("mov qword [rbp+k], 0", "", off)>>))

\* faulty variant: the result of the expression is left on the stack
cg_expr_stmt_M(g, st) ==
    LET g1 == cg_emit_expr(g, st.expr[1]) IN
    IF g1.status # "run" THEN g1
    ELSE cg_unwind(g1)

\* case S_EXPR
cg_expr_stmt(g, st) ==
    LET g1 == cg_emit_expr(g, st.expr[1]) IN
    IF g1.status # "run" THEN g1
    ELSE cg_unwind(emit(g1, <<I("add rsp", "", 8)>>))

\* case S_IF up to the visit of then_s
cg_if(g, st) ==
    LET g0 == cg_new_label(g)
        lbl == g0.label_counter
        g1 == cg_emit_expr(g0, st.expr[1])
    IN  IF g1.status # "run" THEN g1
        ELSE [emit(g1, <<I("pop", "rax", 0),
                         I("cmp", "rax, 0", 0),
                         I("je", ".Lelse", lbl)>>)
              EXCEPT !.stack = Append(@, Frame(IF st.has_else THEN "THEN_E"
                                               ELSE "THEN", lbl))]

\* case S_WHILE up to the visit of the body
cg_while(g, st) ==
    LET g0 == cg_new_label(g)
        lbl == g0.label_counter
        g1 == cg_emit_expr(emit(g0, <<I("label", ".Lwhile", lbl)>>),
                           st.expr[1])
    IN  IF g1.status # "run" THEN g1
        ELSE [emit(g1, <<I("pop", "rax", 0),
                         I("cmp", "rax, 0", 0),
                         I("je", ".Lendwhile", lbl)>>)
              EXCEPT !.stack = Append(@, Frame("WHILE", lbl))]

\* faulty variant: a statement kind without a case is skipped
cg_emit_stmt_M(g, st) ==
    CASE st.kind = "S_DECL" -> cg_decl(g, st)
      [] st.kind = "S_EXPR" -> cg_expr_stmt(g, st)
      [] st.kind = "S_BLOCK" ->
            [g EXCEPT !.stack = Append(@, Frame("BLOCK", 0))]
      [] st.kind = "END" -> cg_unwind([g EXCEPT !.stack = Pop(@)])
      [] st.kind = "S_IF" -> cg_if(g, st)
      [] st.kind = "S_WHILE" -> cg_while(g, st)
      [] OTHER -> cg_unwind(g)

\* cg_emit_stmt on the next node of the traversal
cg_emit_stmt(g, st) ==
    CASE st.kind = "S_DECL" -> cg_decl(g, st)
      [] st.kind = "S_EXPR" -> cg_expr_stmt(g, st)
      [] st.kind = "S_BLOCK" ->
            [g EXCEPT !.stack = Append(@, Frame("BLOCK", 0))]
      [] st.kind = "END" -> cg_unwind([g EXCEPT !.stack = Pop(@)])
      [] st.kind = "S_IF" -> cg_if(g, st)
      [] st.kind = "S_WHILE" -> cg_while(g, st)
      [] OTHER -> cg_error(g, "codegen: unsupported stmt kind")

\* the data section: one record per registered literal, newest first
emit_literals(g) ==
    IF g.lit_count = 0 THEN g
    ELSE emit(g, <<I("section", ".data", 0)>>
                 \o [i \in 1..Len(g.lits) |->
                        I("literal_k: db", g.lits[i].s, g.lits[i].id)])

\* codegen_function after cg_emit_stmt(&g, f->body) has returned
cg_finish(g) ==
    [emit_literals(emit_epilogue(g)) EXCEPT !.status = "ok"]

\* codegen_function(f, ...) on the tree p for the target abi, after k
\* nodes of the tree have been entered (fopen has succeeded)
RECURSIVE codegen_function(_, _, _, _)
codegen_function(p, abi, debug_borrow, k) ==
    IF k = 0 THEN emit_prologue(CGInit(abi, debug_borrow))
    ELSE LET g0 == codegen_function(p, abi, debug_borrow, k - 1) IN
         IF g0.status # "run" THEN g0
         ELSE LET g == cg_emit_stmt(g0, p[k]) IN
              IF g.status = "run" /\ g.stack = <<>> THEN cg_finish(g)
              ELSE g

(***************************************************************************)
(* The processor that runs the text codegen_function wrote, once it has    *)
(* been assembled and linked with the runtime.  Addresses count 8-byte     *)
(* words; main is entered with rsp at the return address.  A value is a   *)
(* record: t says what it is (an integer, a string made from literal v, an *)
(* address, a return address), v is its number.  A word of the stack that  *)
(* nothing has written yet holds whatever was there: the integer fill.     *)
(* slotval is history: per frame offset, the value the declaration's store *)
(* put there last.                                                         *)
(***************************************************************************)
V(t, v) == [t |-> t, v |-> v]

UninitValues == {0, 99}

MachOff ==
    [status |-> "off", ip |-> 0, rax |-> V("int", 0), arg |-> V("int", 0),
     rbp |-> 0, rsp |-> 0, zf |-> FALSE, fill |-> 0, mem |-> <<>>,
     slotval |-> <<>>]

\* main is called: the return address is on the stack
MachStart(fill) ==
    [MachOff EXCEPT !.status = "run", !.ip = 1, !.fill = fill,
                    !.rax = V("int", fill), !.arg = V("int", fill),
                    !.rbp = 1, !.mem = (0 :> V("ret", 0))]

mem_read(m, a) == IF a \in DOMAIN m.mem THEN m.mem[a] ELSE V("int", m.fill)

mem_write(m, a, v) == [m EXCEPT !.mem = (a :> v) @@ @]

step(m) == [m EXCEPT !.ip = @ + 1]

\* the position of the label a_k in the text
label_at(out, a, k) ==
    CHOOSE i \in 1..Len(out) :
        out[i].op = "label" /\ out[i].a = a /\ out[i].k = k

\* push, pop, add rsp, sub rsp
exec_stack(m, l) ==
    CASE l.op = "push" ->
           step([mem_write(m, m.rsp - 1,
                           IF l.a = "rbp" THEN V("addr", m.rbp) ELSE m.rax)
                 EXCEPT !.rsp = @ - 1])
      [] l.op = "push imm" ->
           step([mem_write(m, m.rsp - 1, V("int", l.k)) EXCEPT !.rsp = @ - 1])
      [] l.op = "pop" ->
           step(IF l.a = "rbp"
                THEN [m EXCEPT !.rbp = mem_read(m, m.rsp).v, !.rsp = @ + 1]
                ELSE [m EXCEPT !.rax = mem_read(m, m.rsp), !.rsp = @ + 1])
      [] l.op = "add rsp" -> step([m EXCEPT !.rsp = @ + (l.k \div 8)])
      [] l.op = "sub rsp" -> step([m EXCEPT !.rsp = @ - (l.k \div 8)])

\* mov and lea in the forms the generator writes
exec_move(m, l) ==
    CASE l.op = "mov" /\ l.a = "rbp, rsp" -> step([m EXCEPT !.rbp = m.rsp])
      [] l.op = "mov" /\ l.a = "rsp, rbp" -> step([m EXCEPT !.rsp = m.rbp])
      [] l.op = "mov" /\ l.a = "eax, 0" -> step([m EXCEPT !.rax = V("int", 0)])
      [] l.op = "mov" /\ l.a \in {"rdi, rax", "rcx, rax"} ->
           step([m EXCEPT !.arg = m.rax])
      [] l.op = "mov rax, imm" -> step([m EXCEPT !.rax = V("int", l.k)])
      [] l.op = "mov rax, [rbp+k]" ->
           step([m EXCEPT !.rax = mem_read(m, m.rbp + (l.k \div 8))])
      [] l.op = "lea rax, [rbp+k]" ->
           step([m EXCEPT !.rax = V("addr", m.rbp + (l.k \div 8))])
      [] l.op = "mov [rbp+k], rax" ->
           step([mem_write(m, m.rbp + (l.k \div 8), m.rax)
                 EXCEPT !.slotval = (l.k :> m.rax) @@ @])
      [] l.op = "mov qword [rbp+k], 0" ->
           step([mem_write(m, m.rbp + (l.k \div 8), V("int", 0))
                 EXCEPT !.slotval = (l.k :> V("int", 0)) @@ @])
      [] l.op \in {"lea rdi, [rel literal_k]", "lea rcx, [rel literal_k]"} ->
           step([m EXCEPT !.arg = V("lit", l.k)])

\* call of a runtime routine: the return address is pushed, the routine
\* runs and returns; rax holds its result (nothing defined after a print)
exec_call(m, l) ==
    step([mem_write(m, m.rsp - 1, V("ret", m.ip + 1))
          EXCEPT !.rax = IF l.a \in {"runtime_new_string",
                                     "runtime_clone_string"}
                         THEN V("str", m.arg.v)
                         ELSE V("int", m.fill)])

\* cmp rax, 0; je; jmp
exec_branch(m, l, out) ==
    CASE l.op = "cmp" -> step([m EXCEPT !.zf = (m.rax = V("int", 0))])
      [] l.op = "je" ->
           IF m.zf THEN [m EXCEPT !.ip = label_at(out, l.a, l.k)] ELSE step(m)
      [] l.op = "jmp" -> [m EXCEPT !.ip = label_at(out, l.a, l.k)]

\* ret: main returns to its caller
exec_ret(m) == [m EXCEPT !.rsp = @ + 1, !.status = "halt"]

\* what kind of line l is: an instruction of one of the groups above, or
\* a directive, label or comment ("skip")
OpClass(l) ==
    CASE l.op \in {"push", "push imm", "pop", "add rsp", "sub rsp"} -> "stack"
      [] l.op \in {"mov", "mov rax, imm", "mov rax, [rbp+k]",
                   "lea rax, [rbp+k]", "mov [rbp+k], rax",
                   "mov qword [rbp+k], 0", "lea rdi, [rel literal_k]",
                   "lea rcx, [rel literal_k]"} -> "move"
      [] l.op \in {"cmp", "je", "jmp"} -> "branch"
      [] l.op = "call" -> "call"
      [] l.op = "ret" -> "ret"
      [] OTHER -> "skip"

(***************************************************************************)
(* History of the borrow check.  own runs parallel to bc.vars: id is the   *)
(* number of the visit that declared the entry, how/of say what its        *)
(* initializer did (shared or mut borrow or move of entry `of`, or none).  *)
(***************************************************************************)
Own(id, how, of) == [id |-> id, how |-> how, of |-> of]

own_of_decl(s, o, st, id) ==
    IF st.expr = <<>> THEN Own(id, "none", 0)
    ELSE LET init == st.expr[1]
             tgt == IF init.kind = "E_IDENT" THEN init.name
                    ELSE IF /\ init.kind \in {"E_ADDR", "E_MUTADDR"}
                            /\ init.args[1].kind = "E_IDENT"
                         THEN init.args[1].name
                         ELSE ""
             i == find_var(s.vars, tgt)
         IN  IF tgt = "" \/ i = 0 THEN Own(id, "none", 0)
             ELSE Own(id,
                      CASE init.kind = "E_IDENT" -> "move"
                        [] init.kind = "E_ADDR" -> "shared"
                        [] OTHER -> "mut",
                      o[i].id)

own_step(s, o, st, id) ==
    CASE st.kind = "S_DECL" -> <<own_of_decl(s, o, st, id)>> \o o
      [] st.kind = "END" ->
            LET keep == {i \in 1..Len(o) : s.vars[i].scope_depth # s.depth}
                F[i \in 0..Len(o)] ==
                    IF i = 0 THEN <<>>
                    ELSE IF i \in keep THEN Append(F[i - 1], o[i])
                    ELSE F[i - 1]
            IN  F[Len(o)]
      [] OTHER -> o

gone_step(s, g, st) ==
    IF st.kind = "END"
    THEN g \cup {s.vars[i].name : i \in {j \in 1..Len(s.vars) :
                                         s.vars[j].scope_depth = s.depth}}
    ELSE g

(***************************************************************************)
(* The trees the borrow checker is run on: every well-nested sequence of   *)
(* at most MaxVisits of these nodes.                                       *)
(***************************************************************************)
Names == {"a", "b"}

DeclTypes == {mktype("TY_UNKNOWN")}

Idents == {expr_ident(x) : x \in Names}

\* expressions that are no direct move/borrow initializer
PlainExprs ==
    {expr_int(1)}
    \cup {expr_call("print", <<x>>) : x \in Idents}
    \cup {expr_call("print", <<expr_addr(x, FALSE)>>) : x \in Idents}

Inits ==
    PlainExprs \cup Idents
    \cup {expr_addr(x, m) : x \in Idents, m \in BOOLEAN}
    \cup {expr_addr(expr_str("s"), FALSE)}

Conds == Idents

(***************************************************************************)
(* SpecBC: borrow_check(f, filename) on an arbitrary tree.                 *)
(***************************************************************************)
InitBC ==
    /\ bc = BCInit
    /\ last = NoStmt
    /\ n = 0
    /\ own = <<>>
    /\ gone = {}
    /\ argv = <<>>
    /\ main_debug_borrow = FALSE
    /\ mach = MachOff
    /\ phase = "borrow_check"
    /\ prog = <<>>
    /\ pc = 1
    /\ sem = SemInit
    /\ cg = CGNone
    /\ file = "absent"

\* borrow_check has not returned or failed, and the tree has nodes left
BCRunning == bc.status = "run" /\ n < MaxVisits

\* visit_stmt is entered on the next node of the tree
BCVisit(st) ==
    /\ Expected(bc.stack, st)
    /\ bc' = visit_stmt(bc, st)
    /\ last' = st
    /\ n' = n + 1
    /\ own' = IF bc'.status = "run" THEN own_step(bc, own, st, n + 1) ELSE own
    /\ gone' = gone_step(bc, gone, st)
    /\ UNCHANGED <<driverVars, cliVars, runVars>>

BCDecl ==
    /\ BCRunning
    /\ \E x \in Names, t \in DeclTypes,
          init \in {<<>>} \cup {<<e>> : e \in Inits} :
          BCVisit(stmt_decl(x, t, init))

BCExprStmt ==
    /\ BCRunning
    /\ \E e \in PlainExprs : BCVisit(stmt_expr(e))

BCBlock ==
    /\ BCRunning
    /\ BCVisit(stmt_block)

BCBlockEnd ==
    /\ BCRunning
    /\ BCVisit(BlockEnd)

BCIf ==
    /\ BCRunning
    /\ \E c \in Conds, el \in BOOLEAN : BCVisit(stmt_if(c, el))

BCWhile ==
    /\ BCRunning
    /\ \E c \in Conds : BCVisit(stmt_while(c))

BCFor ==
    /\ BCRunning
    /\ \E e \in Idents : BCVisit(stmt_for("i", e, <<>>))

NextBC ==
    \/ BCDecl
    \/ BCExprStmt
    \/ BCBlock
    \/ BCBlockEnd
    \/ BCIf
    \/ BCWhile
    \/ BCFor

SpecBC == InitBC /\ [][NextBC]_vars

(***************************************************************************)
(* main.c: the driver.  Spec is one compilation: parse_program builds the  *)
(* tree (any tree the parser can build from these statements: parse_stmt   *)
(* makes declarations, for loops, blocks and expression statements),       *)
(* semantic_check annotates it, codegen_function writes the assembly.      *)
(***************************************************************************)
ParsedStmts ==
    {stmt_decl("a", mktype("TY_UNKNOWN"), <<expr_int(1)>>),
     stmt_decl("a", mktype("TY_UNKNOWN"), <<expr_str("s")>>),
     stmt_decl("a", mktype("TY_INT"), <<expr_str("s")>>),
     stmt_decl("b", mktype("TY_UNKNOWN"), <<>>),
     stmt_decl("b", mktype("TY_UNKNOWN"), <<expr_ident("a")>>),
     stmt_decl("b", mktype("TY_UNKNOWN"),
               <<expr_addr(expr_ident("a"), FALSE)>>),
     stmt_decl("b", mktype("TY_UNKNOWN"),
               <<expr_addr(expr_ident("a"), TRUE)>>),
     stmt_decl("b", mktype("TY_STRING"),
               <<expr_call("clone", <<expr_ident("a")>>)>>),
     stmt_expr(expr_call("print", <<expr_ident("a")>>)),
     stmt_expr(expr_call("print", <<expr_ident("b")>>)),
     stmt_expr(expr_call("print", <<expr_str("t")>>)),
     stmt_expr(expr_call("print", <<expr_addr(expr_str("s"), FALSE)>>)),
     stmt_expr(expr_call("print",
                         <<expr_call("clone", <<expr_ident("a")>>)>>)),
     stmt_for("i", expr_ident("a"),
              <<stmt_decl("a", mktype("TY_INT"), <<expr_str("s")>>)>>)}

\* main's command line: the arguments are scanned left to right; -o takes
\* the next argument, whatever it is; every other argument that starts
\* with '-' is ignored; any other argument is the input path.  NULL is <<>>.
ArgTokens == {"-o", "--debug-borrow", "-x", "in.my", "out"}

\* argv[i][0] == '-'
StartsWithDash(a) == a \in {"-o", "--debug-borrow", "-x"}

Argvs == UNION {[1..k -> ArgTokens] : k \in 0..MaxArgc}

NoArgs == [input |-> <<>>, outfile |-> <<>>, debug_borrow |-> FALSE,
           usage |-> FALSE]

RECURSIVE args_loop(_, _, _)
args_loop(av, i, o) ==
    IF i > Len(av) THEN o
    ELSE IF av[i] = "--debug-borrow"
    THEN args_loop(av, i + 1, [o EXCEPT !.debug_borrow = TRUE])
    ELSE IF av[i] = "-o"
    THEN IF i + 1 > Len(av) THEN [o EXCEPT !.usage = TRUE]
         ELSE args_loop(av, i + 2, [o EXCEPT !.outfile = <<av[i + 1]>>])
    ELSE IF ~StartsWithDash(av[i])
    THEN args_loop(av, i + 1, [o EXCEPT !.input = <<av[i]>>])
    ELSE args_loop(av, i + 1, o)

\* faulty variant: an input path alone is enough
parse_args_M(av) ==
    IF Len(av) + 1 < 4 THEN [NoArgs EXCEPT !.usage = TRUE]
    ELSE LET o == args_loop(av, 1, NoArgs) IN
         IF o.usage \/ o.input = <<>>
         THEN [o EXCEPT !.usage = TRUE] ELSE o

\* main, lines 38-57
parse_args(av) ==
    IF Len(av) + 1 < 4 THEN [NoArgs EXCEPT !.usage = TRUE]
    ELSE LET o == args_loop(av, 1, NoArgs) IN
         IF o.usage \/ o.input = <<>> \/ o.outfile = <<>>
         THEN [o EXCEPT !.usage = TRUE] ELSE o

\* blocks parse_block has opened and not yet closed (the root counts)
RECURSIVE OpenBlocks(_)
OpenBlocks(p) ==
    IF p = <<>> THEN 0
    ELSE OpenBlocks(Pop(p))
         + (CASE Top(p).kind = "S_BLOCK" -> 1
              [] Top(p).kind = "END" -> -1
              [] OTHER -> 0)

Init ==
    /\ phase = "args"
    /\ prog = <<stmt_block>>
    /\ pc = 1
    /\ sem = SemInit
    /\ cg = CGNone
    /\ file = "absent"
    /\ bc = BCInit
    /\ last = NoStmt
    /\ n = 0
    /\ own = <<>>
    /\ gone = {}
    /\ argv \in Argvs
    /\ main_debug_borrow = FALSE
    /\ mach = MachOff

\* main up to the call of parse_program: the arguments are scanned; with
\* an argument missing usage() ends the process.  argv is not read again.
MainArgs ==
    /\ phase = "args"
    /\ LET o == parse_args(argv) IN
          IF o.usage
          THEN /\ phase' = "usage"
               /\ UNCHANGED <<argv, main_debug_borrow>>
          ELSE /\ phase' = "parse"
               /\ argv' = <<>>
               /\ main_debug_borrow' = o.debug_borrow
    /\ UNCHANGED <<prog, pc, sem, cg, file, bcVars, runVars>>

\* parse_stmt returns a declaration, a for loop or an expression statement
ParseStmt ==
    /\ phase = "parse"
    /\ Len(prog) <= MaxStmts
    /\ \E st \in ParsedStmts : prog' = Append(prog, st)
    /\ UNCHANGED <<phase, pc, sem, cg, file, bcVars, cliVars, runVars>>

\* parse_block: '{'
ParseBlock ==
    /\ phase = "parse"
    /\ Len(prog) <= MaxStmts
    /\ OpenBlocks(prog) < MaxNest
    /\ prog' = Append(prog, stmt_block)
    /\ UNCHANGED <<phase, pc, sem, cg, file, bcVars, cliVars, runVars>>

\* parse_block: '}'
ParseBlockEnd ==
    /\ phase = "parse"
    /\ OpenBlocks(prog) > 1
    /\ prog' = Append(prog, BlockEnd)
    /\ UNCHANGED <<phase, pc, sem, cg, file, bcVars, cliVars, runVars>>

\* parse_program meets T_EOF and returns; main calls semantic_check
ParseEOF ==
    /\ phase = "parse"
    /\ OpenBlocks(prog) = 1
    /\ prog' = Append(prog, BlockEnd)
    /\ phase' = "sem"
    /\ UNCHANGED <<pc, sem, cg, file, bcVars, cliVars, runVars>>

\* the parser or lexer meets a token it does not expect: errorf, exit(1)
ParseError ==
    /\ phase = "parse"
    /\ phase' = "exit1"
    /\ UNCHANGED <<prog, pc, sem, cg, file, bcVars, cliVars, runVars>>

\* sem_stmt is entered on the next node; on an error the process exits,
\* when semantic_check returns main goes on to codegen_function
SemVisit ==
    /\ phase = "sem"
    /\ sem.status = "run"
    /\ LET r == sem_stmt(sem, prog[pc]) IN
          /\ sem' = r.s
          /\ prog' = [prog EXCEPT ![pc] = r.st]
          /\ last' = r.st
          /\ phase' = CASE r.s.status = "run" -> "sem"
                        [] r.s.status = "ok" -> "cg"
                        [] OTHER -> "exit1"
          /\ pc' = IF r.s.status = "ok" THEN 1 ELSE pc + 1
    /\ UNCHANGED <<cg, file, bc, n, own, gone, cliVars, runVars>>

\* codegen_function: fopen succeeds, the CG is set up, emit_prologue
CGEnter ==
    /\ phase = "cg"
    /\ cg.status = "none"
    /\ \E abi \in {"sysv", "win64"} :
          cg' = emit_prologue(CGInit(abi, main_debug_borrow))
    /\ file' = "open"
    /\ UNCHANGED <<phase, prog, pc, sem, bcVars, cliVars, runVars>>

\* codegen_function: fopen fails, it returns 1 and main returns 1
CGOpenFail ==
    /\ phase = "cg"
    /\ cg.status = "none"
    /\ cg' = [cg EXCEPT !.status = "fopen"]
    /\ phase' = "exit1"
    /\ UNCHANGED <<prog, pc, sem, file, bcVars, cliVars, runVars>>

\* cg_emit_stmt is entered on the next node; on an error the process
\* exits; when the root returns, codegen_function writes the epilogue and
\* the literals, closes the file and returns 0, and main returns 0
CGVisit ==
    /\ phase = "cg"
    /\ cg.status = "run"
    /\ LET g == cg_emit_stmt(cg, prog[pc]) IN
          IF g.status = "run" /\ g.stack = <<>>
          THEN /\ cg' = cg_finish(g)
               /\ file' = "closed"
               /\ phase' = "exit0"
          ELSE /\ cg' = g
               /\ file' = file
               /\ phase' = IF g.status = "run" THEN "cg" ELSE "exit1"
    /\ last' = prog[pc]
    /\ pc' = pc + 1
    /\ UNCHANGED <<prog, sem, bc, n, own, gone, cliVars, runVars>>

Next ==
    \/ MainArgs
    \/ ParseStmt
    \/ ParseBlock
    \/ ParseBlockEnd
    \/ ParseEOF
    \/ ParseError
    \/ SemVisit
    \/ CGEnter
    \/ CGOpenFail
    \/ CGVisit

Spec == Init /\ [][Next]_vars

(***************************************************************************)
(* Vocabulary of the claims.                                               *)
(***************************************************************************)
\* the pass is (still) accepting the tree
Accepted(s) == s.status \in {"run", "ok"}

MovedErrors ==
    {"use of moved value", "borrow of moved value", "mut borrow of moved value"}

UndeclaredErrors ==
    {"use of undeclared variable", "use of undeclared",
     "borrow of undeclared", "mut borrow of undeclared"}

\* st is a declaration whose direct initializer has kind k
IsDeclInit(st, k) ==
    st.kind = "S_DECL" /\ st.expr # <<>> /\ st.expr[1].kind = k

\* st is `let _ = x`, `let _ = &x`, `let _ = &mut x` (k = E_IDENT, E_ADDR,
\* E_MUTADDR) for the variable named x
IsDeclOf(st, k, x) ==
    /\ IsDeclInit(st, k)
    /\ IF k = "E_IDENT" THEN st.expr[1].name = x
       ELSE st.expr[1].args[1].kind = "E_IDENT" /\ st.expr[1].args[1].name = x

\* the identifier x occurs in expression e
RECURSIVE Mentions(_, _)
Mentions(e, x) ==
    \/ e.kind = "E_IDENT" /\ e.name = x
    \/ \E i \in 1..Len(e.args) : Mentions(e.args[i], x)

\* st is a declaration, expression statement, if or while whose expression
\* uses the variable x
UsesName(st, x) ==
    /\ st.kind \in {"S_DECL", "S_EXPR", "S_IF", "S_WHILE"}
    /\ st.expr # <<>>
    /\ Mentions(st.expr[1], x)

\* x resolves to a tracked entry that has been moved
IsMoved(s, x) ==
    LET i == find_var(s.vars, x) IN i # 0 /\ ~s.vars[i].valid

\* no tracked entry borrows entry i any more
NoLiveBorrower(o, i) ==
    \A j \in 1..Len(o) : ~(o[j].of = o[i].id /\ o[j].how \in {"shared", "mut"})

\* the k-th entry counted from the tail of the list (the oldest is 1)
FromTail(vs, k) == vs[Len(vs) - k + 1]

(***************************************************************************)
(* C1.  Move invalidation: once `let b = a` has moved a, every later use   *)
(* of a (in a declaration's initializer, an expression statement, an if or *)
(* while condition) makes borrow_check fail with a moved-value error.      *)
(***************************************************************************)
C1_MoveInvalidation ==
    [][\A x \in Names :
          (n' = n + 1 /\ IsMoved(bc, x) /\ UsesName(last', x))
              => bc'.status \in MovedErrors]_vars

(***************************************************************************)
(* C2.  Scope release: when every declaration `let r = &a` that borrowed   *)
(* a has left scope (its entry was destroyed at a block exit) and a is     *)
(* valid and not exclusively borrowed, a following `let m = &mut a` or     *)
(* `let b = a` is accepted.                                                *)
(***************************************************************************)
C2_ScopeRelease ==
    [][\A x \in Names :
          LET i == find_var(bc.vars, x) IN
          (/\ n' = n + 1
           /\ IsDeclOf(last', "E_MUTADDR", x) \/ IsDeclOf(last', "E_IDENT", x)
           /\ i # 0
           /\ bc.vars[i].valid
           /\ ~bc.vars[i].mut_borrowed
           /\ NoLiveBorrower(own, i))
              => Accepted(bc')]_vars

(***************************************************************************)
(* C3.  Exclusive exclusivity: `let m = &mut x` is accepted only if x is   *)
(* tracked, valid, has no shared borrow and no exclusive borrow; and       *)
(* `let r = &x` is rejected whenever x is exclusively borrowed.            *)
(***************************************************************************)
C3_ExclusiveExclusivity ==
    [][n' = n + 1 =>
          /\ (IsDeclInit(last', "E_MUTADDR") /\ Accepted(bc')) =>
                LET inner == last'.expr[1].args[1]
                    i == find_var(bc.vars, inner.name)
                IN  /\ inner.kind = "E_IDENT"
                    /\ i # 0
                    /\ bc.vars[i].valid
                    /\ bc.vars[i].imm_count = 0
                    /\ ~bc.vars[i].mut_borrowed
          /\ \A x \in Names :
                LET i == find_var(bc.vars, x) IN
                (IsDeclOf(last', "E_ADDR", x) /\ i # 0 /\ bc.vars[i].mut_borrowed)
                    => ~Accepted(bc')]_vars

\* `let r = &a; let m = &mut a;` has just been rejected at the second
\* declaration
C3_Witness ==
    /\ bc.status = "cannot mutably borrow (already borrowed)"
    /\ \E x \in Names :
          /\ IsDeclOf(last, "E_MUTADDR", x)
          /\ bc.vars[find_var(bc.vars, x)].imm_count > 0

(***************************************************************************)
(* C4.  Shared-borrow coexistence: `let r = &a` on a valid a without an    *)
(* exclusive borrow is always accepted, raises the shared count of a by    *)
(* exactly one and leaves a valid and not exclusively borrowed.            *)
(***************************************************************************)
C4_SharedCoexist ==
    [][\A x \in Names :
          LET i == find_var(bc.vars, x) IN
          (/\ n' = n + 1
           /\ IsDeclOf(last', "E_ADDR", x)
           /\ i # 0
           /\ bc.vars[i].valid
           /\ ~bc.vars[i].mut_borrowed)
              => /\ bc'.status = "run"
                 /\ Len(bc'.vars) = Len(bc.vars) + 1
                 /\ bc'.vars[i + 1] =
                        [bc.vars[i] EXCEPT !.imm_count = @ + 1]
                 /\ bc'.vars[i + 1].valid
                 /\ ~bc'.vars[i + 1].mut_borrowed]_vars

\* a third shared borrow of the same variable has just been accepted
C4_Witness ==
    /\ bc.status = "run"
    /\ \E x \in Names :
          /\ IsDeclOf(last, "E_ADDR", x)
          /\ \E i \in 1..Len(bc.vars) :
                /\ bc.vars[i].name = x
                /\ bc.vars[i].imm_count >= 3
                /\ bc.vars[i].valid

(***************************************************************************)
(* C5.  Move while borrowed: `let b = a` is rejected whenever a has a      *)
(* shared or an exclusive borrow outstanding; an entry goes from valid to  *)
(* moved only when its shared count is 0 and its exclusive flag is clear.  *)
(***************************************************************************)
C5_MoveWhileBorrowed ==
    [][n' = n + 1 =>
          /\ \A x \in Names :
                LET i == find_var(bc.vars, x) IN
                (/\ IsDeclOf(last', "E_IDENT", x)
                 /\ i # 0
                 /\ (bc.vars[i].imm_count > 0 \/ bc.vars[i].mut_borrowed))
                    => ~Accepted(bc')
          /\ \A k \in 1..Len(bc.vars) :
                (/\ k <= Len(bc'.vars)
                 /\ FromTail(bc.vars, k).valid
                 /\ ~FromTail(bc'.vars, k).valid)
                    => /\ FromTail(bc.vars, k).imm_count = 0
                       /\ ~FromTail(bc.vars, k).mut_borrowed
                       /\ IsDeclOf(last', "E_IDENT", FromTail(bc.vars, k).name)
                       /\ Accepted(bc')]_vars

\* a move of a variable with an outstanding borrow has just been rejected
C5_Witness ==
    /\ bc.status = "cannot move because it is borrowed"
    /\ \E x \in Names :
          /\ IsDeclOf(last, "E_IDENT", x)
          /\ LET v == bc.vars[find_var(bc.vars, x)] IN
             v.imm_count > 0 \/ v.mut_borrowed

(***************************************************************************)
(* C6.  Scope exit removes bindings: once the entry of a has been          *)
(* destroyed at a block exit and no other binding named a is tracked, any  *)
(* reference to a (identifier use, move, &a, &mut a) makes the borrow      *)
(* checker fail with an undeclared-variable error.                         *)
(***************************************************************************)
C6_ScopeExitRemoves ==
    [][\A x \in Names :
          (/\ n' = n + 1
           /\ x \in gone
           /\ find_var(bc.vars, x) = 0
           /\ UsesName(last', x))
              => bc'.status \in UndeclaredErrors]_vars

(***************************************************************************)
(* Vocabulary of the driver claims.                                        *)
(***************************************************************************)
\* st is a declaration with a known declared type whose initializer
\* infer_expr types, under table tab, with another type kind
IsMismatchDecl(st, tab) ==
    /\ st.kind = "S_DECL"
    /\ st.expr # <<>>
    /\ TypeKindOf(st.type) # "TY_UNKNOWN"
    /\ LET r == infer_expr(st.expr[1], tab) IN
          r.err = "" /\ TypeKindOf(r.e.type) # TypeKindOf(st.type)

\* borrow_check run on the whole tree p, from node i on
RECURSIVE bc_run(_, _, _)
bc_run(s, p, i) ==
    IF i > Len(p) \/ s.status # "run" THEN s
    ELSE bc_run(visit_stmt(s, p[i]), p, i + 1)

\* the argument nodes of the print calls in e, in the order the generator
\* emits the calls (arguments right to left, then the call itself)
RECURSIVE PrintArgs(_)
RECURSIVE PrintArgsRL(_, _)
PrintArgs(e) ==
    IF e.kind = "E_CALL"
    THEN PrintArgsRL(e.args, Len(e.args))
         \o (IF e.name = "print" /\ e.args # <<>> THEN <<e.args[1]>> ELSE <<>>)
    ELSE <<>>

PrintArgsRL(args, i) ==
    IF i = 0 THEN <<>> ELSE PrintArgs(args[i]) \o PrintArgsRL(args, i - 1)

\* the routine the claim names for a print argument
ClaimedRoutine(arg) ==
    CASE TypeKindOf(arg.type) = "TY_STRING" -> "runtime_print_string"
      [] TypeKindOf(arg.type) = "TY_INT" -> "runtime_print_int"
      [] OTHER -> IF arg.kind = "E_STR_LIT" THEN "runtime_print_string"
                  ELSE "runtime_print_int"

\* the print routines called by the lines out[from + 1 .. to], in order
PrintCalls(out, from, to) ==
    LET calls == SelectSeq(SubSeq(out, from + 1, to),
                           LAMBDA l : /\ l.op = "call"
                                      /\ l.a \in {"runtime_print_int",
                                                  "runtime_print_string"})
    IN  [i \in 1..Len(calls) |-> calls[i].a]

(***************************************************************************)
(* C7.  Type mismatch stops the pipeline: when sem_stmt visits a           *)
(* declaration with a known declared type whose initializer has another    *)
(* inferred type kind, semantic_check ends the process with the type       *)
(* mismatch error; codegen_function is not entered and the output file is  *)
(* never opened.                                                           *)
(***************************************************************************)
C7_TypeMismatchStops ==
    [][/\ (/\ phase = "sem"
           /\ pc' # pc
           /\ IsMismatchDecl(prog[pc], CurTab(sem)))
              => /\ sem'.status = "Type mismatch in declaration"
                 /\ phase' = "exit1"
       /\ sem.status = "Type mismatch in declaration"
              => /\ phase = "exit1" /\ phase' = "exit1"
                 /\ cg.status = "none" /\ cg'.status = "none"
                 /\ file = "absent" /\ file' = "absent"]_vars

\* `let a: int = "s";` has just ended the compilation
C7_Witness ==
    /\ phase = "exit1"
    /\ sem.status = "Type mismatch in declaration"
    /\ last.kind = "S_DECL"
    /\ TypeKindOf(last.type) = "TY_INT"
    /\ last.expr[1].kind = "E_STR_LIT"
    /\ cg.status = "none"
    /\ file = "absent"

(***************************************************************************)
(* C8.  Pipeline order: a program that violates the ownership/borrow rules *)
(* (borrow_check rejects it) never reaches code generation.                *)
(***************************************************************************)
C8_BorrowCheckedBeforeCodegen ==
    cg.status # "none" => Accepted(bc_run(BCInit, prog, 1))

(***************************************************************************)
(* C9.  No artifact on failure: whenever the compilation has ended with an *)
(* error, the output assembly file has not been created.                   *)
(***************************************************************************)
C9_NoArtifactOnFailure ==
    phase = "exit1" => file = "absent"

(***************************************************************************)
(* C10.  Print dispatch: in a tree the semantic analyzer accepted, every   *)
(* print(arg) the generator lowers calls runtime_print_string exactly when *)
(* arg's annotated type is string (as it is for a string literal and for a *)
(* clone call), runtime_print_int when it is integer, and for every other  *)
(* type runtime_print_int unless arg is a string literal node.             *)
(***************************************************************************)
C10_PrintDispatch ==
    [][(/\ phase = "cg"
        /\ pc' # pc
        /\ prog[pc].kind \in {"S_DECL", "S_EXPR"}
        /\ prog[pc].expr # <<>>
        /\ cg'.status \in {"run", "ok"})
           => LET args == PrintArgs(prog[pc].expr[1]) IN
              /\ PrintCalls(cg'.out, Len(cg.out), Len(cg'.out))
                    = [i \in 1..Len(args) |-> ClaimedRoutine(args[i])]
              /\ \A i \in 1..Len(args) :
                    /\ (\/ args[i].kind = "E_STR_LIT"
                        \/ (args[i].kind = "E_CALL" /\ args[i].name = "clone"))
                          => TypeKindOf(args[i].type) = "TY_STRING"
                    /\ args[i].kind = "E_INT_LIT"
                          => TypeKindOf(args[i].type) = "TY_INT"]_vars

\* print(a) with a of type string has just been lowered to a call of
\* runtime_print_string
C10_Witness ==
    /\ phase = "cg"
    /\ cg.status = "run"
    /\ last.kind = "S_EXPR"
    /\ last.expr[1].name = "print"
    /\ last.expr[1].args[1].kind = "E_IDENT"
    /\ TypeKindOf(last.expr[1].args[1].type) = "TY_STRING"
    /\ cg.out[Len(cg.out) - 2] = I("call", "runtime_print_string", 0)

(***************************************************************************)
(* Vocabulary of the literal pool claim.                                   *)
(***************************************************************************)
\* the texts of the string literals cg_emit_expr registers while lowering
\* e, in the order it registers them (call arguments right to left)
RECURSIVE StrLits(_)
RECURSIVE StrLitsRL(_, _)
StrLits(e) ==
    CASE e.kind = "E_STR_LIT" -> <<e.name>>
      [] e.kind = "E_CALL" -> StrLitsRL(e.args, Len(e.args))
      [] OTHER -> <<>>

StrLitsRL(args, i) ==
    IF i = 0 THEN <<>> ELSE StrLits(args[i]) \o StrLitsRL(args, i - 1)

\* the same over the statements p[1..i] of a tree
RECURSIVE TreeStrLits(_, _)
TreeStrLits(p, i) ==
    IF i = 0 THEN <<>>
    ELSE TreeStrLits(p, i - 1)
         \o (IF p[i].expr # <<>> THEN StrLits(p[i].expr[1]) ELSE <<>>)

\* the literal ids referenced by the instructions of out, in order
UseSiteIds(out) ==
    LET uses == SelectSeq(out, LAMBDA l :
                     l.op \in {"lea rdi, [rel literal_k]",
                               "lea rcx, [rel literal_k]"})
    IN  [i \in 1..Len(uses) |-> uses[i].k]

\* the records of the data section of out
DataRecords(out) == SelectSeq(out, LAMBDA l : l.op = "literal_k: db")

HasDataSection(out) == \E i \in 1..Len(out) : out[i] = I("section", ".data", 0)

(***************************************************************************)
(* C11.  Literal pool completeness: when codegen_function has returned 0,  *)
(* the string literals of the tree were given the ids 1, 2, 3, ... in the  *)
(* order they were emitted (equal texts get different ids), each use site  *)
(* references its literal's id, the data section holds exactly one record  *)
(* per id, carrying that literal's text, and nothing else, and the data    *)
(* section is present exactly when a string literal was emitted.           *)
(***************************************************************************)
C11_LiteralPool ==
    cg.status = "ok" =>
        LET lits == TreeStrLits(prog, Len(prog))
            recs == DataRecords(cg.out)
        IN  /\ UseSiteIds(cg.out) = [i \in 1..Len(lits) |-> i]
            /\ cg.lit_count = Len(lits)
            /\ Len(recs) = Len(lits)
            /\ {recs[j].k : j \in 1..Len(recs)} = 1..Len(lits)
            /\ {recs[j].k : j \in 1..Len(recs)}
                  = {cg.lits[j].id : j \in 1..Len(cg.lits)}
            /\ \A i \in 1..Len(lits) :
                  \E j \in 1..Len(recs) :
                      /\ recs[j].k = i
                      /\ recs[j].a = lits[i]
                      /\ \A h \in 1..Len(recs) : recs[h].k = i => h = j
            /\ HasDataSection(cg.out) <=> Len(lits) > 0

\* a compiled program with two literals of the same text and one of
\* another text
C11_Witness ==
    /\ cg.status = "ok"
    /\ phase = "exit0"
    /\ LET lits == TreeStrLits(prog, Len(prog)) IN
          /\ Len(lits) = 3
          /\ lits[1] = lits[2]
          /\ lits[3] # lits[1]
    /\ Len(DataRecords(cg.out)) = 3

(***************************************************************************)
(* Vocabulary of the semantic analyzer claims.                             *)
(***************************************************************************)
\* the analyzer after sem_stmt has been entered on p[1..k], in order
RECURSIVE sem_run(_, _, _)
sem_run(s, p, k) ==
    IF k = 0 THEN s
    ELSE LET s0 == sem_run(s, p, k - 1) IN
         IF s0.status # "run" THEN s0 ELSE sem_stmt(s0, p[k]).s

\* the index of the S_BLOCK node whose loop ends at the END node p[e]:
\* scan back from i with d block ends still to be matched
RECURSIVE MatchOpen(_, _, _)
MatchOpen(p, i, d) ==
    IF p[i].kind = "S_BLOCK"
    THEN IF d = 1 THEN i ELSE MatchOpen(p, i - 1, d - 1)
    ELSE IF p[i].kind = "END" THEN MatchOpen(p, i - 1, d + 1)
    ELSE MatchOpen(p, i - 1, d)

BlockStart(p, e) == MatchOpen(p, e - 1, 1)

\* the type name x resolves to in table tab (<<>> when it does not resolve)
Resolve(tab, x) ==
    IF sym_find(tab, x) = 0 THEN <<>> ELSE <<tab[sym_find(tab, x)].type>>

AllNames == {"a", "b", "i"}

(***************************************************************************)
(* C12.  Semantic block scoping: for every block of the tree the analyzer  *)
(* gets through, (1) at every point inside the block each name that        *)
(* resolved in the enclosing scope when the block was entered still        *)
(* resolves, and to the same type unless it was declared again inside the  *)
(* block; (2) when the block has ended the enclosing scope's chain is      *)
(* exactly what it was when the block was entered, so no declaration made  *)
(* inside resolves and a shadowed outer binding resolves to its outer type *)
(* again.                                                                  *)
(***************************************************************************)
C12_SemBlockScoping ==
    phase # "parse" =>
        \A e \in 1..Len(prog) :
            (prog[e].kind = "END" /\ Accepted(sem_run(SemInit, prog, e))) =>
                LET b == BlockStart(prog, e)
                    before == CurTab(sem_run(SemInit, prog, b - 1))
                    after == CurTab(sem_run(SemInit, prog, e))
                IN  /\ after = before
                    /\ \A x \in AllNames : Resolve(after, x) = Resolve(before, x)
                    /\ \A k \in b..(e - 1), x \in AllNames :
                          LET inside == CurTab(sem_run(SemInit, prog, k)) IN
                          Resolve(before, x) # <<>> =>
                              /\ Resolve(inside, x) # <<>>
                              /\ (\A j \in (b + 1)..k :
                                     ~(prog[j].kind = "S_DECL" /\ prog[j].name = x))
                                    => Resolve(inside, x) = Resolve(before, x)

\* { let a = 1; { let a = "s"; } ...: the inner block has just ended and a
\* resolves to the outer integer binding again
C12_Witness ==
    /\ phase = "sem"
    /\ sem.status = "run"
    /\ pc = 6
    /\ prog[5].kind = "END"
    /\ prog[4].kind = "S_DECL" /\ prog[4].name = "a"
    /\ TypeKindOf(prog[4].expr[1].type) = "TY_STRING"
    /\ prog[3].kind = "S_BLOCK"
    /\ prog[2].kind = "S_DECL" /\ prog[2].name = "a"
    /\ Resolve(CurTab(sem), "a") = <<mktype("TY_INT")>>

\* the identifier nodes of expression e that infer_expr looks up
RECURSIVE IdentNodes(_)
IdentNodes(e) ==
    CASE e.kind = "E_IDENT" -> {e}
      [] e.kind \in {"E_ADDR", "E_MUTADDR", "E_CALL"} ->
            UNION {IdentNodes(e.args[i]) : i \in 1..Len(e.args)}
      [] OTHER -> {}

(***************************************************************************)
(* C13.  Type inference on declaration: when sem_stmt visits a declaration *)
(* whose initializer is typed without error, then with an unknown declared *)
(* type the name is bound to the initializer's type; with a known declared *)
(* type the analysis fails unless the two type kinds are equal, and the    *)
(* name is bound to the declared type when they are.  Every identifier     *)
(* expression of a node the analyzer accepts is annotated with the type    *)
(* its name is bound to at that point.                                     *)
(***************************************************************************)
C13_DeclInference ==
    [][(phase = "sem" /\ pc' # pc) =>
          LET st == prog[pc]
              st1 == prog'[pc]
          IN  /\ (st.kind = "S_DECL" /\ st.expr # <<>>
                    /\ infer_expr(st.expr[1], CurTab(sem)).err = "") =>
                    LET init_t == st1.expr[1].type IN
                    IF TypeKindOf(st.type) = "TY_UNKNOWN"
                    THEN /\ Accepted(sem')
                         /\ Resolve(CurTab(sem'), st.name) = <<init_t>>
                    ELSE IF TypeKindOf(st.type) = TypeKindOf(init_t)
                    THEN /\ Accepted(sem')
                         /\ Resolve(CurTab(sem'), st.name) = <<st.type>>
                    ELSE sem'.status = "Type mismatch in declaration"
              /\ (st.kind \in {"S_DECL", "S_EXPR"} /\ st.expr # <<>>
                    /\ Accepted(sem')) =>
                    \A id \in IdentNodes(st1.expr[1]) :
                        <<id.type>> = Resolve(CurTab(sem), id.name)]_vars

\* let a = "s"; let b: string = clone(a); print(b); has been analyzed: a
\* was bound to the inferred string type, b to its declared type, and the
\* use of b is annotated with it
C13_Witness ==
    /\ phase = "cg"
    /\ Len(prog) = 5
    /\ prog[2].kind = "S_DECL" /\ prog[2].name = "a"
    /\ TypeKindOf(prog[2].type) = "TY_UNKNOWN"
    /\ prog[3].kind = "S_DECL" /\ prog[3].name = "b"
    /\ TypeKindOf(prog[3].type) = "TY_STRING"
    /\ prog[3].expr[1].args[1].type = mktype("TY_STRING")
    /\ prog[4].kind = "S_EXPR"
    /\ prog[4].expr[1].args[1].kind = "E_IDENT"
    /\ prog[4].expr[1].args[1].name = "b"
    /\ prog[4].expr[1].args[1].type = mktype("TY_STRING")

(***************************************************************************)
(* SpecInfer: infer_expr on one call expression, for any symbol table.     *)
(* The expression statement `e;` is visited by sem_stmt under a table in   *)
(* which a is unbound or bound to an integer, a string or a reference.     *)
(***************************************************************************)
ArgExprs ==
    {expr_int(1), expr_str("s"), expr_ident("a"),
     expr_addr(expr_ident("a"), FALSE),
     expr_call("clone", <<expr_ident("a")>>),
     expr_call("foo", <<>>)}

ArgLists == UNION {[1..k -> ArgExprs] : k \in 0..MaxArgs}

CallExprs == {expr_call(f, args) : f \in {"clone", "print", "foo"},
                                   args \in ArgLists}

SymTabs ==
    {<<>>, <<Sym("a", mktype("TY_INT"))>>, <<Sym("a", mktype("TY_STRING"))>>,
     <<Sym("a", mkref("TY_REF", mktype("TY_STRING")))>>}

InitInfer ==
    /\ phase = "infer"
    /\ \E e \in CallExprs : prog = <<stmt_expr(e)>>
    /\ \E tab \in SymTabs : sem = [SemInit EXCEPT !.tabs = <<tab>>]
    /\ pc = 1
    /\ cg = CGNone
    /\ file = "absent"
    /\ bc = BCInit
    /\ last = NoStmt
    /\ n = 0
    /\ own = <<>>
    /\ gone = {}
    /\ argv = <<>>
    /\ main_debug_borrow = FALSE
    /\ mach = MachOff

\* case S_EXPR: infer_expr(s->v.expr, sym) returns or ends the process
InferCall ==
    /\ phase = "infer"
    /\ LET r == infer_expr(prog[1].expr[1], CurTab(sem)) IN
          /\ prog' = [prog EXCEPT ![1].expr[1] = r.e]
          /\ last' = prog'[1]
          /\ sem' = IF r.err = "" THEN sem ELSE sem_error(sem, r.err)
          /\ phase' = IF r.err = "" THEN "inferred" ELSE "exit1"
    /\ UNCHANGED <<pc, cg, file, bc, n, own, gone, cliVars, runVars>>

SpecInfer == InitInfer /\ [][InferCall]_vars

\* the call e is one the claim lets the analyzer accept under table tab
ClaimAcceptsCall(e, tab) ==
    /\ Len(e.args) = 1
    /\ infer_expr(e.args[1], tab).err = ""
    /\ \/ e.name = "print"
       \/ /\ e.name = "clone"
          /\ infer_expr(e.args[1], tab).e.type = mktype("TY_STRING")

(***************************************************************************)
(* C14.  Built-in call validation: infer_expr returns from a call exactly  *)
(* when it is clone with one argument of type string, and then the call's  *)
(* type is string, or print with one argument (of any type, itself typed   *)
(* without error), and then the call's type is integer; clone with another *)
(* arity or another argument type (a reference to a string included),      *)
(* print with another arity, and every other function name end the         *)
(* analysis with an error.                                                 *)
(***************************************************************************)
C14_CallValidation ==
    [][phase = "infer" =>
          LET e == prog[1].expr[1]
              e1 == prog'[1].expr[1]
          IN  /\ phase' = "inferred" <=> ClaimAcceptsCall(e, CurTab(sem))
              /\ phase' = "inferred" =>
                    /\ sem'.status = "run"
                    /\ e1.type = IF e.name = "clone" THEN mktype("TY_STRING")
                                 ELSE mktype("TY_INT")
              /\ phase' # "inferred" =>
                    /\ phase' = "exit1"
                    /\ ~Accepted(sem')]_vars

\* clone(&a) with a a string has been rejected
C14_Witness ==
    /\ phase = "exit1"
    /\ sem.status = "clone() only implemented for string types"
    /\ last.expr[1].name = "clone"
    /\ Len(last.expr[1].args) = 1
    /\ last.expr[1].args[1].kind = "E_ADDR"
    /\ last.expr[1].args[1].type = mkref("TY_REF", mktype("TY_STRING"))

ASTStmts ==
    {stmt_decl("a", mktype("TY_UNKNOWN"), <<expr_int(1)>>),
     stmt_decl("a", mktype("TY_UNKNOWN"), <<expr_str("s")>>),
     stmt_decl("b", mktype("TY_UNKNOWN"), <<expr_ident("a")>>),
     stmt_decl("b", mktype("TY_UNKNOWN"),
               <<expr_addr(expr_ident("a"), FALSE)>>),
     stmt_expr(expr_call("print", <<expr_ident("b")>>))}

\* the constructor calls still waiting for a child statement after the
\* nodes p were built, as a stack of frames
RECURSIVE Shape(_)
Shape(p) ==
    IF p = <<>> THEN <<>>
    ELSE LET st == Shape(Pop(p))
             it == Top(p)
         IN  CASE it.kind = "S_BLOCK" -> Append(st, Frame("BLOCK", 0))
               [] it.kind = "END" -> sem_unwind(Pop(st))
               [] it.kind = "S_IF" ->
                     Append(st, Frame(IF it.has_else THEN "THEN_E"
                                      ELSE "THEN", 0))
               [] it.kind = "S_WHILE" -> Append(st, Frame("WHILE", 0))
               [] OTHER -> sem_unwind(st)

NodeCount(p) == Cardinality({i \in 1..Len(p) : p[i].kind # "END"})

BuildStmt ==
    /\ phase = "parse"
    /\ NodeCount(prog) < MaxNodes
    /\ \E st \in ASTStmts : prog' = Append(prog, st)
    /\ UNCHANGED <<phase, pc, sem, cg, file, bcVars, cliVars, runVars>>

BuildBlock ==
    /\ phase = "parse"
    /\ NodeCount(prog) < MaxNodes
    /\ Len(Shape(prog)) < MaxNest
    /\ prog' = Append(prog, stmt_block)
    /\ UNCHANGED <<phase, pc, sem, cg, file, bcVars, cliVars, runVars>>

BuildIf ==
    /\ phase = "parse"
    /\ NodeCount(prog) < MaxNodes
    /\ Len(Shape(prog)) < MaxNest
    /\ \E c \in Conds, el \in BOOLEAN : prog' = Append(prog, stmt_if(c, el))
    /\ UNCHANGED <<phase, pc, sem, cg, file, bcVars, cliVars, runVars>>

BuildWhile ==
    /\ phase = "parse"
    /\ NodeCount(prog) < MaxNodes
    /\ Len(Shape(prog)) < MaxNest
    /\ \E c \in Conds : prog' = Append(prog, stmt_while(c))
    /\ UNCHANGED <<phase, pc, sem, cg, file, bcVars, cliVars, runVars>>

\* a block is complete; when it is the root, main calls semantic_check
BuildBlockEnd ==
    /\ phase = "parse"
    /\ Top(Shape(prog)).f = "BLOCK"
    /\ prog' = Append(prog, BlockEnd)
    /\ phase' = IF Shape(prog') = <<>> THEN "sem" ELSE "parse"
    /\ UNCHANGED <<pc, sem, cg, file, bcVars, cliVars, runVars>>

NextAST ==
    \/ MainArgs
    \/ BuildStmt
    \/ BuildBlock
    \/ BuildIf
    \/ BuildWhile
    \/ BuildBlockEnd
    \/ SemVisit
    \/ CGEnter
    \/ CGOpenFail
    \/ CGVisit

SpecAST == Init /\ [][NextAST]_vars

(***************************************************************************)
(* C16.  Slot existence after analysis: in a tree semantic_check accepted, *)
(* the generator finds a slot for every identifier it loads or takes the   *)
(* address of: neither of its unknown-identifier errors occurs.            *)
(***************************************************************************)
C16_SlotExists ==
    /\ cg.status \notin {"codegen: unknown identifier",
                         "codegen: unknown var in &"}
    /\ (phase = "cg" /\ cg.status = "run" /\ prog[pc].expr # <<>>) =>
          \A id \in IdentNodes(prog[pc].expr[1]) :
              cg_find(cg_emit_stmt(cg, prog[pc]).slots, id.name) # 0

\* b was declared as the unwrapped then-branch of an if and is loaded
\* after the if
C16_Witness ==
    /\ phase = "cg"
    /\ cg.status = "run"
    /\ pc = 6
    /\ prog[3].kind = "S_IF"
    /\ prog[4].kind = "S_DECL" /\ prog[4].name = "b"
    /\ last.kind = "S_EXPR"
    /\ last.expr[1].args[1].name = "b"
    /\ \E i \in 1..Len(cg.out) : cg.out[i].op = "mov rax, [rbp+k]"
                                   /\ cg.out[i].k = -16

(***************************************************************************)
(* SpecCG: codegen_function on a tree that did not go through              *)
(* semantic_check, so that every node kind of ast.h reaches the generator. *)
(* The statement kinds S_RETURN, S_BREAK, S_CONTINUE and the expression    *)
(* kind E_BINOP have no constructor in ast.c; their nodes are records of   *)
(* the same shape carrying the kind.                                       *)
(***************************************************************************)
expr_binop(lhs, rhs) ==
    [kind |-> "E_BINOP", name |-> "", val |-> 0, args |-> <<lhs, rhs>>,
     type |-> mktype("TY_UNKNOWN")]

stmt_other(kind) ==
    [kind |-> kind, name |-> "", type |-> mktype("TY_UNKNOWN"),
     expr |-> <<>>, has_else |-> FALSE, body |-> <<>>]

UnsupportedStmtKinds == {"S_FOR", "S_RETURN", "S_BREAK", "S_CONTINUE"}

UnsupportedExprKinds == {"E_BINOP", "E_RANGE", "E_ARRAY_LIT", "E_INDEX"}

UnsupportedExprs ==
    {expr_binop(expr_int(1), expr_int(2)),
     expr_range(expr_int(1), expr_int(2)),
     expr_array(<<expr_int(1)>>),
     expr_index(expr_ident("a"), expr_int(1))}

CGItems ==
    {stmt_decl("a", mktype("TY_UNKNOWN"), <<expr_int(1)>>),
     stmt_expr(expr_call("print", <<expr_str("s")>>)),
     stmt_for("i", expr_ident("a"), <<>>)}
    \cup {stmt_other(k) : k \in UnsupportedStmtKinds \ {"S_FOR"}}
    \cup {stmt_decl("a", mktype("TY_UNKNOWN"), <<u>>) : u \in UnsupportedExprs}
    \cup {stmt_expr(u) : u \in UnsupportedExprs}
    \cup {stmt_expr(expr_call("print", <<u>>)) : u \in UnsupportedExprs}
    \cup {stmt_expr(expr_call("print", <<u, expr_str("s")>>)) :
             u \in UnsupportedExprs}
    \cup {stmt_if(u, FALSE) : u \in UnsupportedExprs}
    \cup {stmt_while(u) : u \in UnsupportedExprs}

InitCG ==
    /\ phase = "cg"
    /\ \E body \in UNION {[1..k -> CGItems] : k \in 0..MaxCGStmts} :
          /\ prog = <<stmt_block>> \o body \o <<BlockEnd>>
          /\ Shape(prog) = <<>>
    /\ pc = 1
    /\ sem = SemInit
    /\ cg = CGNone
    /\ file = "absent"
    /\ bc = BCInit
    /\ last = NoStmt
    /\ n = 0
    /\ own = <<>>
    /\ gone = {}
    /\ argv = <<>>
    /\ main_debug_borrow \in BOOLEAN
    /\ mach = MachOff

NextCG ==
    \/ CGEnter
    \/ CGOpenFail
    \/ CGVisit

SpecCG == InitCG /\ [][NextCG]_vars

\* the call e has an argument of an unsupported kind and only literals to
\* the right of the rightmost such argument; that argument's index
UnsupportedArg(e) ==
    IF e.kind = "E_CALL"
       /\ \E i \in 1..Len(e.args) :
             /\ e.args[i].kind \in UnsupportedExprKinds
             /\ \A j \in (i + 1)..Len(e.args) :
                   e.args[j].kind \in {"E_INT_LIT", "E_STR_LIT"}
    THEN CHOOSE i \in 1..Len(e.args) :
             /\ e.args[i].kind \in UnsupportedExprKinds
             /\ \A j \in (i + 1)..Len(e.args) :
                   e.args[j].kind \in {"E_INT_LIT", "E_STR_LIT"}
    ELSE 0

NewOut == SubSeq(cg'.out, Len(cg.out) + 1, Len(cg'.out))

Pushes(out) == Len(SelectSeq(out, LAMBDA l : l.op = "push"))

RuntimeCalls(out) ==
    Len(SelectSeq(out, LAMBDA l : l.op = "call" /\ l.a # "runtime_new_string"))

(***************************************************************************)
(* C17.  Unsupported constructs are fatal in the generator: when           *)
(* cg_emit_stmt is entered on a for, return, break or continue statement,  *)
(* or cg_emit_expr on a binary operation, range, array literal or index    *)
(* expression (as a statement's expression or as the argument of a call),  *)
(* the process ends with the unsupported-kind error; nothing is written    *)
(* for that node (of a call only the arguments evaluated before it, of a   *)
(* while statement only its loop label), and nothing after it.             *)
(***************************************************************************)
C17_UnsupportedFatal ==
    [][/\ (phase = "cg" /\ cg.status = "run" /\ pc' # pc) =>
             LET st == prog[pc] IN
             /\ st.kind \in UnsupportedStmtKinds =>
                   /\ cg'.status = "codegen: unsupported stmt kind"
                   /\ phase' = "exit1"
                   /\ NewOut = <<>>
             /\ (/\ st.kind \in {"S_DECL", "S_EXPR", "S_IF", "S_WHILE"}
                 /\ st.expr # <<>>
                 /\ st.expr[1].kind \in UnsupportedExprKinds) =>
                   /\ cg'.status = "codegen: unsupported expr kind"
                   /\ phase' = "exit1"
                   /\ NewOut = IF st.kind = "S_WHILE"
                               THEN <<I("label", ".Lwhile", cg'.label_counter)>>
                               ELSE <<>>
             /\ (/\ st.kind \in {"S_DECL", "S_EXPR"}
                 /\ st.expr # <<>>
                 /\ UnsupportedArg(st.expr[1]) # 0) =>
                   /\ cg'.status = "codegen: unsupported expr kind"
                   /\ phase' = "exit1"
                   /\ Pushes(NewOut)
                         = Len(st.expr[1].args) - UnsupportedArg(st.expr[1])
                   /\ RuntimeCalls(NewOut) = 0
       /\ cg.status \in {"codegen: unsupported stmt kind",
                         "codegen: unsupported expr kind"}
             => /\ phase = "exit1"
                /\ UNCHANGED <<cg, pc, file>>]_vars

\* print(1..2, "s"): the literal was evaluated, then the range ended the
\* process
C17_Witness ==
    /\ phase = "exit1"
    /\ cg.status = "codegen: unsupported expr kind"
    /\ last.kind = "S_EXPR"
    /\ last.expr[1].kind = "E_CALL"
    /\ Len(last.expr[1].args) = 2
    /\ last.expr[1].args[1].kind = "E_RANGE"
    /\ cg.out[Len(cg.out)] = I("push", "rax", 0)
    /\ cg.lit_count = 1

(***************************************************************************)
(* C18: the command line.                                                  *)
(***************************************************************************)
\* the argument at position i is the word that follows an -o option
RECURSIVE IsOperand(_, _)
IsOperand(av, i) == i > 1 /\ av[i - 1] = "-o" /\ ~IsOperand(av, i - 1)

\* some -o option is followed by its operand
HasOutputPair(av) ==
    \E i \in 1..(Len(av) - 1) : av[i] = "-o" /\ ~IsOperand(av, i)

\* the last argument is an -o option with nothing after it
DanglingOutput(av) ==
    Len(av) > 0 /\ av[Len(av)] = "-o" /\ ~IsOperand(av, Len(av))

\* some argument that is not an operand does not start with a dash
HasInputPath(av) ==
    \E i \in 1..Len(av) : ~StartsWithDash(av[i]) /\ ~IsOperand(av, i)

MissingArguments(av) ==
    \/ Len(av) < 3
    \/ DanglingOutput(av)
    \/ ~HasOutputPair(av)
    \/ ~HasInputPath(av)

PipelineOrder ==
    {<<"args", "usage">>, <<"args", "parse">>, <<"parse", "sem">>,
     <<"parse", "exit1">>, <<"sem", "cg">>, <<"sem", "exit1">>,
     <<"cg", "exit0">>, <<"cg", "exit1">>}

\* C18: with the input path or the -o pair missing the driver prints the
\* usage text and exits before anything is parsed or written; otherwise it
\* runs parsing, semantic analysis and code generation in that order, and
\* it exits with status 0 only when code generation has succeeded.
C18_CommandLine ==
    [][/\ phase = "args" =>
            IF MissingArguments(argv)
            THEN phase' = "usage" /\ prog' = prog /\ file' = "absent"
            ELSE phase' = "parse"
       /\ phase' # phase => <<phase, phase'>> \in PipelineOrder
       /\ phase = "sem" => cg.status = "none" /\ file = "absent"
       /\ phase' = "exit0" => phase = "cg" /\ cg'.status = "ok"]_vars

\* the usage exit of a command line whose -o has no operand
C18_Witness ==
    /\ phase = "usage"
    /\ Len(argv) >= 3
    /\ argv[Len(argv)] = "-o"
    /\ HasInputPath(argv)

(***************************************************************************)
(* C19: the debug flag.                                                    *)
(***************************************************************************)
\* the generator has been entered on the tree and the file was opened
Generating == phase \in {"cg", "exit0", "exit1"} /\ file # "absent"

\* C19: the run of the generator on the same tree for the same target with
\* the other value of debug_borrow stands, after as many nodes, at the same
\* outcome (running, finished, or stopped with the same message) and has
\* written the same assembly text.
C19_DebugFlagUnobservable ==
    Generating =>
        LET this == codegen_function(prog, cg.abi, cg.debug_borrow, pc - 1)
            that == codegen_function(prog, cg.abi, ~cg.debug_borrow, pc - 1)
        IN /\ cg.debug_borrow = main_debug_borrow
           /\ this = cg
           /\ that.status = cg.status
           /\ that.out = cg.out

\* a finished run with the flag set that created a string and printed
C19_Witness ==
    /\ phase = "exit0"
    /\ main_debug_borrow
    /\ cg.debug_borrow
    /\ \E i \in 1..Len(cg.out) : cg.out[i].a = "runtime_new_string"
    /\ \E i \in 1..Len(cg.out) : cg.out[i].a = "runtime_print_string"

(***************************************************************************)
(* C20: the two targets.                                                   *)
(***************************************************************************)
RuntimeRoutines ==
    {"runtime_new_string", "runtime_print_int", "runtime_print_string",
     "runtime_clone_string"}

\* the line reserves or releases the 32 bytes of shadow space
IsShadow(l) == l.op \in {"sub rsp", "add rsp"} /\ l.k = 32

NotShadow(l) == ~IsShadow(l)

\* the line loads the first-argument register of the Microsoft target
LoadsRcx(l) ==
    \/ l.op = "mov" /\ l.a = "rcx, rax"
    \/ l.op = "lea rcx, [rel literal_k]"

\* the line loads the first-argument register of the System V target
LoadsRdi(l) ==
    \/ l.op = "mov" /\ l.a = "rdi, rax"
    \/ l.op = "lea rdi, [rel literal_k]"

IsRuntimeCall(l) == l.op = "call" /\ l.a \in RuntimeRoutines

\* every call of the text has the Microsoft shape
Win64Calls(out) ==
    \A i \in 1..Len(out) :
        out[i].op = "call" =>
            /\ IsRuntimeCall(out[i])
            /\ i > 2 /\ i < Len(out)
            /\ LoadsRcx(out[i - 2])
            /\ out[i - 1] = I("sub rsp", "", 32)
            /\ out[i + 1] = I("add rsp", "", 32)

\* every call of the text has the System V shape
SysvCalls(out) ==
    /\ \A i \in 1..Len(out) : ~IsShadow(out[i])
    /\ \A i \in 1..Len(out) :
            out[i].op = "call" =>
                IsRuntimeCall(out[i]) /\ i > 1 /\ LoadsRdi(out[i - 1])

\* the Microsoft line with the argument register renamed
RenameRegister(l) ==
    IF l.op = "mov" /\ l.a = "rcx, rax" THEN I("mov", "rdi, rax", l.k)
    ELSE IF l.op = "lea rcx, [rel literal_k]"
    THEN I("lea rdi, [rel literal_k]", l.a, l.k)
    ELSE l

\* the comment that introduces the creation of a string names the target
RenameTarget(l) ==
    IF l.op = ";" /\ l.a = "create string literal (win64)"
    THEN I(";", "create string literal (sysv)", l.k)
    ELSE l

\* the Microsoft text without its shadow-space lines, registers renamed
WithoutABI(out) ==
    LET kept == SelectSeq(out, NotShadow)
    IN  [i \in 1..Len(kept) |-> RenameRegister(kept[i])]

\* the runs of the generator on the tree for the two targets, as far as
\* the run of this state has come
OnWin64 == codegen_function(prog, "win64", cg.debug_borrow, pc - 1)

OnSysv == codegen_function(prog, "sysv", cg.debug_borrow, pc - 1)

ABICallShapes ==
    /\ cg = (IF cg.abi = "win64" THEN OnWin64 ELSE OnSysv)
    /\ Win64Calls(OnWin64.out)
    /\ SysvCalls(OnSysv.out)
    /\ OnWin64.status = OnSysv.status

StackDelta(l) ==
    CASE l.op \in {"push", "push imm"} -> 1
      [] l.op = "pop" -> -1
      [] l.op = "sub rsp" -> l.k \div 8
      [] l.op = "add rsp" -> -(l.k \div 8)
      [] OTHER -> 0

RECURSIVE StackDepth(_)
StackDepth(lines) ==
    IF lines = <<>> THEN 0
    ELSE StackDepth(Pop(lines)) + StackDelta(Top(lines))

\* the lines g1 has written after g0
Emitted(g0, g1) == SubSeq(g1.out, Len(g0.out) + 1, Len(g1.out))

\* what the analyzer demands of every call: print or clone, one argument
RECURSIVE OneArgCalls(_)
OneArgCalls(e) ==
    /\ e.kind = "E_CALL" => e.name \in {"print", "clone"} /\ Len(e.args) = 1
    /\ \A i \in 1..Len(e.args) : OneArgCalls(e.args[i])

\* the expression and the arguments cg_emit_expr is entered on within it
RECURSIVE EmittedExprs(_)
EmittedExprs(e) ==
    {e} \cup (IF e.kind = "E_CALL"
              THEN UNION {EmittedExprs(e.args[i]) : i \in 1..Len(e.args)}
              ELSE {})

StackExprs ==
    {expr_addr(expr_ident("b"), TRUE),
     expr_call("print", <<expr_call("clone", <<expr_str("s")>>)>>),
     expr_call("print", <<expr_ident("a"), expr_int(1)>>)}

\* C21: the lines written for a statement (for an if or a while: for each
\* of its parts, the condition with its test, and the jumps and labels
\* after its branches) leave the stack depth unchanged, and the lines
\* written for an expression whose calls the analyzer accepts, or for any
\* argument in it, leave the stack one word deeper; on both targets.
C21_StackDiscipline ==
    [][phase = "cg" /\ cg.status = "run" =>
          LET g == cg_emit_stmt(cg, prog[pc])
              own_exprs == IF prog[pc].expr = <<>> THEN {}
                           ELSE EmittedExprs(prog[pc].expr[1])
          IN  /\ SubSeq(cg'.out, 1, Len(g.out)) = g.out
              /\ g.status = "run" => StackDepth(Emitted(cg, g)) = 0
              /\ \A e \in own_exprs \cup
                          (IF own_exprs = {} THEN {} ELSE StackExprs) :
                     LET ge == cg_emit_expr(cg, e) IN
                     OneArgCalls(e) /\ ge.status = "run" =>
                         StackDepth(Emitted(cg, ge)) = 1]_vars

\* a finished Microsoft text with a while around a print
C21_Witness ==
    /\ phase = "exit0"
    /\ cg.abi = "win64"
    /\ Len(prog) = 6
    /\ prog[4].kind = "S_WHILE"
    /\ prog[5].kind = "S_EXPR"
    /\ \E i \in 1..Len(cg.out) : cg.out[i].op = "jmp"

(***************************************************************************)
(* C22: moved is terminal.                                                 *)
(***************************************************************************)
\* x resolves to a tracked entry that is valid
IsUsable(s, x) ==
    LET i == find_var(s.vars, x) IN i # 0 /\ s.vars[i].valid

\* C22: a moved entry that survives a visit is left exactly as it was (it
\* stays moved, its shared count and exclusive flag are not touched), and
\* a name that resolved to a moved entry resolves to a valid one after the
\* visit only if the visit declared the name anew or was the block exit
\* that destroyed the moved entry.
C22_MovedIsTerminal ==
    [][n' = n + 1 =>
          /\ \A k \in 1..Len(bc.vars) :
                (k <= Len(bc'.vars) /\ ~FromTail(bc.vars, k).valid)
                    => FromTail(bc'.vars, k) = FromTail(bc.vars, k)
          /\ \A x \in Names :
                (IsMoved(bc, x) /\ IsUsable(bc', x))
                    => \/ last'.kind = "S_DECL" /\ last'.name = x
                       \/ /\ last'.kind = "END"
                          /\ bc.vars[find_var(bc.vars, x)].scope_depth
                                 = bc.depth]_vars

\* a borrow of a moved variable has just been rejected and the moved entry
\* is still tracked next to a newer entry
C22_Witness ==
    /\ bc.status = "borrow of moved value"
    /\ \E x \in Names :
          /\ IsDeclOf(last, "E_ADDR", x)
          /\ IsMoved(bc, x)
          /\ find_var(bc.vars, x) > 1

(***************************************************************************)
(* C23: expression visits and the borrow state.                            *)
(***************************************************************************)
\* the statement holds an expression that is not a declaration's direct
\* move or borrow initializer
HasPlainExpr(st) ==
    \/ st.kind \in {"S_EXPR", "S_IF", "S_WHILE", "S_FOR"}
    \/ /\ st.kind = "S_DECL"
       /\ st.expr # <<>>
       /\ st.expr[1].kind \notin {"E_IDENT", "E_ADDR", "E_MUTADDR"}

\* some identifier of e is not tracked or resolves to a moved entry
HasUnusableName(s, e) ==
    \E x \in Names \cup {"c"} : Mentions(e, x) /\ ~IsUsable(s, x)

\* expressions as they occur in calls and conditions
VisitedExprs ==
    {expr_ident("c"), expr_addr(expr_ident("b"), TRUE),
     expr_call("print", <<expr_addr(expr_ident("a"), TRUE)>>),
     expr_call("print", <<expr_ident("b"), expr_ident("a")>>),
     expr_call("foo", <<expr_call("clone", <<expr_ident("b")>>)>>)}

\* C23: a visit of a statement whose expression is not a declaration's
\* direct initializer leaves every tracked entry as it was (a declaration
\* adds its own new entry and nothing else), and it is rejected only when
\* an identifier of the expression is undeclared or moved; so is every
\* expression handed to visit_expr.  A reference to an exclusively
\* borrowed variable inside a call is accepted.
C23_ExprVisitsFrame ==
    [][(n' = n + 1 /\ HasPlainExpr(last')) =>
          /\ Len(bc'.vars) =
                 Len(bc.vars)
                 + (IF last'.kind = "S_DECL" /\ Accepted(bc') THEN 1 ELSE 0)
          /\ \A k \in 1..Len(bc.vars) :
                 FromTail(bc'.vars, k) = FromTail(bc.vars, k)
          /\ ~Accepted(bc') => HasUnusableName(bc, last'.expr[1])
          /\ \A e \in IF last'.kind = "S_DECL" THEN VisitedExprs ELSE {} :
                 visit_expr(bc.vars, e) # "" => HasUnusableName(bc, e)]_vars

\* `let m = &mut a;` and then a declaration initialized with print(&a)
\* has been accepted
C23_Witness ==
    /\ bc.status = "run"
    /\ last.kind = "S_DECL"
    /\ last.expr # <<>>
    /\ last.expr[1].kind = "E_CALL"
    /\ last.expr[1].args[1].kind = "E_ADDR"
    /\ \E i \in 1..Len(bc.vars) :
          /\ bc.vars[i].name = last.expr[1].args[1].args[1].name
          /\ bc.vars[i].mut_borrowed
          /\ i = find_var(bc.vars, bc.vars[i].name)

(***************************************************************************)
(* C24: first error only.                                                  *)
(***************************************************************************)
\* the analyzer has a complaint about the node under table tab
ViolatesSem(st, tab) ==
    /\ st.kind \in {"S_DECL", "S_EXPR", "S_IF", "S_WHILE"}
    /\ st.expr # <<>>
    /\ \/ infer_expr(st.expr[1], tab).err # ""
       \/ IsMismatchDecl(st, tab)

\* the process has ended
Exited == phase \in {"usage", "exit0", "exit1"}

DeclsUpTo(p, k) == {i \in 1..k : p[i].kind = "S_DECL"}

\* the slots of g are those of its first d declarations: the k-th
\* declaration's slot is at -8k
SlotsInOrder(g, p, decls) ==
    /\ Len(g.slots) = Cardinality(decls)
    /\ g.stack_size = 8 * Len(g.slots)
    /\ \A i \in 1..Len(g.slots) :
          LET k == Len(g.slots) - i + 1 IN
          /\ g.slots[i].offset = -8 * k
          /\ \E d \in decls :
                /\ Cardinality({e \in decls : e <= d}) = k
                /\ p[d].name = g.slots[i].name

\* the offset of the slot created last among those named x
MostRecentOffset(slots, x) ==
    CHOOSE o \in {slots[i].offset : i \in 1..Len(slots)} :
        \E i \in 1..Len(slots) :
            /\ slots[i].name = x
            /\ slots[i].offset = o
            /\ \A j \in 1..Len(slots) :
                   slots[j].name = x => slots[j].offset >= o

\* the identifier the statement's expression uses (at most one in the
\* statements of SpecAST)
UsedName(st) == CHOOSE x \in Names : Mentions(st.expr[1], x)

\* C25: the k-th declaration the generator lowers gets a new slot at
\* -8k, whatever its nesting and whatever slots of that name exist; the
\* offsets are distinct and decrease in declaration order; a slot is never
\* removed or changed; and a load of an identifier or of its address
\* uses the most recently created slot of that name.
C25_StackSlots ==
    [][(phase = "cg" /\ cg.status = "run") =>
          /\ SlotsInOrder(cg, prog, DeclsUpTo(prog, pc - 1))
          /\ Accepted(cg') => SlotsInOrder(cg', prog, DeclsUpTo(prog, pc))
          /\ \A i \in 1..Len(cg.slots) :
                cg'.slots[Len(cg'.slots) - i + 1]
                    = cg.slots[Len(cg.slots) - i + 1]
          /\ \A i, j \in 1..Len(cg'.slots) :
                i < j => cg'.slots[i].offset < cg'.slots[j].offset
          /\ \A i \in 1..Len(NewOut) :
                NewOut[i].op \in {"mov rax, [rbp+k]", "lea rax, [rbp+k]"}
                    => NewOut[i].k = MostRecentOffset(cg'.slots,
                                                      UsedName(prog[pc]))]_vars

\* a declared twice, the second time inside an if or while or block, and
\* then loaded from its second slot
C25_Witness ==
    /\ phase \in {"cg", "exit0"}
    /\ Len(cg.slots) >= 2
    /\ cg.slots[Len(cg.slots)].name = "a"
    /\ cg.slots[Len(cg.slots) - 1].name = "a"
    /\ prog[2].kind = "S_DECL"
    /\ prog[3].kind \in {"S_IF", "S_WHILE", "S_BLOCK"}
    /\ prog[4].kind = "S_DECL"
    /\ \E i \in 1..Len(cg.out) :
          cg.out[i].op \in {"mov rax, [rbp+k]", "lea rax, [rbp+k]"}
          /\ cg.out[i].k = -16

(***************************************************************************)
(* C26: labels.                                                            *)
(***************************************************************************)
LabelNames == {".Lelse", ".Lend", ".Lwhile", ".Lendwhile"}

\* positions of the lines that define a numbered label
LabelDefs(out) ==
    {i \in 1..Len(out) : out[i].op = "label" /\ out[i].a \in LabelNames}

\* positions of the jumps
Jumps(out) == {i \in 1..Len(out) : out[i].op \in {"jmp", "je"}}

\* the numbers given to the if statements and to the while statements
IfNumbers(out) == {out[i].k : i \in {j \in LabelDefs(out) : out[j].a = ".Lelse"}}

WhileNumbers(out) ==
    {out[i].k : i \in {j \in LabelDefs(out) : out[j].a = ".Lwhile"}}

\* the if and while statements among the nodes of the tree
Branching(p, kind) == {i \in 1..Len(p) : p[i].kind = kind}

\* C26: no label is ever defined twice; in a finished output every if and
\* every while of the tree has a number of its own, every jump targets a
\* label the output defines, every if defines its else-label and its
\* end-label (also without an else branch) and every while its two labels.
C26_LabelUniqueness ==
    /\ \A i, j \in LabelDefs(cg.out) :
          (cg.out[i].a = cg.out[j].a /\ cg.out[i].k = cg.out[j].k) => i = j
    /\ cg.status = "ok" =>
          /\ IfNumbers(cg.out) \cap WhileNumbers(cg.out) = {}
          /\ Cardinality(IfNumbers(cg.out)) = Cardinality(Branching(prog, "S_IF"))
          /\ Cardinality(WhileNumbers(cg.out))
                = Cardinality(Branching(prog, "S_WHILE"))
          /\ \A i \in Jumps(cg.out) :
                \E j \in LabelDefs(cg.out) :
                    cg.out[j].a = cg.out[i].a /\ cg.out[j].k = cg.out[i].k
          /\ \A k \in IfNumbers(cg.out) :
                \E j \in LabelDefs(cg.out) :
                    cg.out[j].a = ".Lend" /\ cg.out[j].k = k
          /\ \A k \in WhileNumbers(cg.out) :
                \E j \in LabelDefs(cg.out) :
                    cg.out[j].a = ".Lendwhile" /\ cg.out[j].k = k

\* a finished output for an if without else nested in a while
C26_Witness ==
    /\ phase = "exit0"
    /\ Len(prog) >= 5
    /\ prog[3].kind = "S_WHILE"
    /\ prog[4].kind = "S_IF"
    /\ ~prog[4].has_else
    /\ cg.label_counter = 2

(***************************************************************************)
(* C27: if and while bodies share the enclosing scope.                     *)
(***************************************************************************)
\* the node the analyzer is about to visit is the then-branch, the
\* else-branch or the body of an if or while, not wrapped in a block
IsBareBranch(s) == s.stack # <<>> /\ Top(s.stack).f # "BLOCK"

\* C27: a declaration the analyzer accepts as the bare branch of an if or
\* the bare body of a while is added to the table of the enclosing scope:
\* no table is opened or dropped, the name resolves to the declaration's
\* type in the else-branch that follows and after the if or while, and
\* the table otherwise is as before; tables are opened and dropped at
\* block statements only.
C27_BranchesShareScope ==
    [][phase = "sem" =>
          /\ (IsBareBranch(sem) /\ prog[pc].kind = "S_DECL"
                 /\ Accepted(sem')) =>
                /\ Len(sem'.tabs) = Len(sem.tabs)
                /\ Resolve(CurTab(sem'), prog[pc].name)
                      = <<CurTab(sem')[1].type>>
                /\ CurTab(sem')[1].name = prog[pc].name
                /\ Tail(CurTab(sem')) = CurTab(sem)
                /\ infer_expr(expr_ident(prog[pc].name), CurTab(sem')).err
                      = ""
          /\ Len(sem'.tabs) # Len(sem.tabs) =>
                prog[pc].kind \in {"S_BLOCK", "END"}]_vars

\* b was declared as the bare then-branch of an if and used in its
\* else-branch, and the analyzer accepted the tree
C27_Witness ==
    /\ sem.status = "ok"
    /\ Len(prog) = 6
    /\ prog[3].kind = "S_IF"
    /\ prog[3].has_else
    /\ prog[4].kind = "S_DECL"
    /\ prog[4].name = "b"
    /\ prog[5].kind = "S_EXPR"
    /\ Mentions(prog[5].expr[1], "b")

(***************************************************************************)
(* C28: release of the output handle.                                      *)
(***************************************************************************)
\* C28: on every path by which code generation ends, with success or with
\* an error of the generator, the output file that codegen_function
\* opened has been closed by the time the process ends.
C28_HandleReleased == (phase \in {"exit0", "exit1"}) => file # "open"

(***************************************************************************)
(* C29: reference of a non-identifier.                                     *)
(***************************************************************************)
\* operands of & that are not a bare identifier
NonIdentOperands ==
    {expr_str("s"), expr_addr(expr_ident("a"), FALSE),
     expr_call("clone", <<expr_ident("a")>>)}

NonIdentRefs == {expr_addr(e, m) : e \in NonIdentOperands, m \in BOOLEAN}

\* lists of tracked variables for the borrow checker
SomeVarLists ==
    {<<>>,
     <<VarInfo("a", mktype("TY_UNKNOWN"), 1)>>,
     <<[VarInfo("a", mktype("TY_UNKNOWN"), 1) EXCEPT !.mut_borrowed = TRUE]>>}

\* the statement holds a reference to a non-identifier
HasNonIdentRef(st) ==
    /\ st.kind \in {"S_DECL", "S_EXPR"}
    /\ st.expr # <<>>
    /\ \E r \in EmittedExprs(st.expr[1]) :
          r.kind \in {"E_ADDR", "E_MUTADDR"} /\ r.args[1].kind # "E_IDENT"

\* C29: for &e and &mut e with e not a bare identifier: the analyzer
\* accepts it whenever it accepts e and types it as a reference to e's
\* type; the generator rejects it with "& expects identifier" and writes
\* nothing; the borrow checker (which does not depend on the pipeline and
\* is asked before it starts) rejects it as the direct initializer of a
\* declaration.  A statement holding such a reference in a call passes the
\* analyzer and ends the process in the generator.
C29_RefOfNonIdentifier ==
    [][/\ \A r \in NonIdentRefs :
             /\ LET in == infer_expr(r.args[1], CurTab(sem))
                    res == infer_expr(r, CurTab(sem))
                IN  in.err = "" =>
                       /\ res.err = ""
                       /\ res.e.type =
                             mkref(IF r.kind = "E_ADDR" THEN "TY_REF"
                                   ELSE "TY_MUTREF", in.e.type)
             /\ cg.status = "run" =>
                   cg_emit_expr(cg, r) =
                       cg_error(cg, "codegen: & expects identifier")
             /\ \A vs \in IF phase = "args" THEN SomeVarLists ELSE {} :
                   visit_stmt([BCInit EXCEPT !.vars = vs, !.depth = 1,
                                             !.stack = <<Frame("BLOCK", 0)>>],
                              stmt_decl("b", mktype("TY_UNKNOWN"), <<r>>)).status
                       = (IF r.kind = "E_ADDR"
                          THEN "cannot borrow from non-identifier"
                          ELSE "cannot mutably borrow non-identifier")
       /\ (phase = "sem" /\ HasNonIdentRef(prog[pc])
              /\ infer_expr(prog[pc].expr[1], CurTab(sem)).err = "") =>
             Accepted(sem')
       /\ (phase = "cg" /\ cg.status = "run" /\ HasNonIdentRef(prog[pc])) =>
             /\ cg'.status = "codegen: & expects identifier"
             /\ phase' = "exit1"
             /\ sem.status = "ok"]_vars

\* print(&"s") has passed the analyzer and has just ended the generator
C29_Witness ==
    /\ phase = "exit1"
    /\ sem.status = "ok"
    /\ cg.status = "codegen: & expects identifier"
    /\ last.kind = "S_EXPR"
    /\ last.expr[1].args[1].kind = "E_ADDR"
    /\ last.expr[1].args[1].args[1].kind = "E_STR_LIT"
    /\ last.expr[1].args[1].type = mkref("TY_REF", mktype("TY_STRING"))

(***************************************************************************)
(* C30: invariant of the borrow state.                                     *)
(***************************************************************************)
\* the borrow state of one tracked entry is consistent
EntryOK(v) ==
    /\ ~(v.imm_count > 0 /\ v.mut_borrowed)
    /\ ~v.valid => (v.imm_count = 0 /\ ~v.mut_borrowed)
    /\ v.imm_count >= 0

BorrowStateOK == \A i \in 1..Len(bc.vars) : EntryOK(bc.vars[i])

\* the shared count of an entry that stays tracked does not go down
SharedCountGrows ==
    \A k \in 1..Len(bc.vars) :
       k <= Len(bc'.vars) =>
          /\ FromTail(bc'.vars, k).name = FromTail(bc.vars, k).name
          /\ FromTail(bc'.vars, k).imm_count >= FromTail(bc.vars, k).imm_count

\* C30: in every state reached during borrow_check no tracked variable has
\* both a positive shared count and the exclusive flag, every moved
\* variable has shared count 0 and the exclusive flag clear, and the
\* shared count is never negative and never decreases while the entry
\* exists.
C30_BorrowStateInvariant == []BorrowStateOK /\ [][SharedCountGrows]_vars

\* a variable with two shared borrows, an exclusively borrowed one and a
\* moved one are tracked together
C30_Witness ==
    /\ bc.status = "run"
    /\ \E i, j, k \in 1..Len(bc.vars) :
          /\ bc.vars[i].imm_count >= 2 /\ bc.vars[i].valid
          /\ bc.vars[j].mut_borrowed /\ bc.vars[j].valid
          /\ ~bc.vars[k].valid

(***************************************************************************)
(* C31: binding agreement between the analyzer and the generator.          *)
(***************************************************************************)
\* the greatest member of a set of node indices (0 for the empty set)
Latest(S) == IF S = {} THEN 0 ELSE CHOOSE j \in S : \A i \in S : i <= j

\* the declaration node whose symbol the analyzer finds for x when
\* sem_stmt is entered on p[k] (0 when x does not resolve): the symbol at
\* height t of the chain was linked by the last declaration that left a
\* chain of t symbols
SemDeclOf(p, k, x) ==
    LET tab == CurTab(sem_run(SemInit, p, k - 1))
        i == sym_find(tab, x)
    IN  IF i = 0 THEN 0
        ELSE Latest({j \in DeclsUpTo(p, k - 1) :
                        Len(CurTab(sem_run(SemInit, p, j)))
                            = Len(tab) - i + 1})

\* the declaration node whose cg_add made the slot at offset off (the
\* m-th declaration lowered owns the slot at -8m)
SlotDeclOf(p, k, off) ==
    Latest({d \in DeclsUpTo(p, k) :
               Cardinality({e \in DeclsUpTo(p, k) : e <= d}) * 8 = -off})

\* C31: for every identifier use in a tree the analyzer accepted, the
\* slot the generator loads (or takes the address of) is the slot of the
\* declaration the analyzer resolved the identifier to.
C31_BindingAgreement ==
    [][(phase = "cg" /\ cg.status = "run" /\ prog[pc].expr # <<>>) =>
          \A i \in 1..Len(NewOut) :
             NewOut[i].op \in {"mov rax, [rbp+k]", "lea rax, [rbp+k]"} =>
                SlotDeclOf(prog, pc, NewOut[i].k)
                    = SemDeclOf(prog, pc, UsedName(prog[pc]))]_vars

(***************************************************************************)
(* Compile and run: a tree with declarations, prints, an if and a while is *)
(* handed to borrow_check, then taken through semantic_check and           *)
(* codegen_function as in main, and the text written is then executed      *)
(* instruction by instruction.  Each pass is run from its entry point;     *)
(* what borrow_check finds does not keep the other passes from running.    *)
(***************************************************************************)
RunItems ==
    {stmt_decl("a", mktype("TY_UNKNOWN"), <<expr_int(1)>>),
     stmt_decl("b", mktype("TY_UNKNOWN"), <<expr_int(2)>>),
     stmt_decl("a", mktype("TY_UNKNOWN"), <<expr_ident("a")>>),
     stmt_decl("b", mktype("TY_UNKNOWN"), <<expr_str("s")>>),
     stmt_expr(expr_call("print", <<expr_ident("a")>>)),
     stmt_if(expr_ident("a"), FALSE),
     stmt_while(expr_ident("b"))}

InitRun ==
    /\ phase = "borrow_check"
    /\ \E body \in UNION {[1..k -> RunItems] : k \in 0..MaxRunStmts} :
          /\ prog = <<stmt_block>> \o body \o <<BlockEnd>>
          /\ Shape(prog) = <<>>
    /\ pc = 1
    /\ sem = SemInit
    /\ cg = CGNone
    /\ file = "absent"
    /\ bc = BCInit
    /\ last = NoStmt
    /\ n = 0
    /\ own = <<>>
    /\ gone = {}
    /\ argv = <<>>
    /\ main_debug_borrow = FALSE
    /\ mach = MachOff

\* borrow_check(f, filename): visit_stmt is entered on the next node of
\* the tree, until the root has returned or bc_error has ended the pass
BCWalk ==
    /\ phase = "borrow_check"
    /\ bc.status = "run"
    /\ n < Len(prog)
    /\ bc' = visit_stmt(bc, prog[n + 1])
    /\ last' = prog[n + 1]
    /\ n' = n + 1
    /\ own' = IF bc'.status = "run" THEN own_step(bc, own, prog[n + 1], n + 1)
              ELSE own
    /\ gone' = gone_step(bc, gone, prog[n + 1])
    /\ phase' = IF bc'.status = "run" THEN "borrow_check" ELSE "sem"
    /\ UNCHANGED <<prog, pc, sem, cg, file, cliVars, runVars>>

\* the program has been assembled and linked, and main is called
RunStart ==
    /\ phase = "exit0"
    /\ mach.status = "off"
    /\ \E fill \in UninitValues : mach' = MachStart(fill)
    /\ UNCHANGED <<driverVars, bcVars, cliVars>>

Running == phase = "exit0" /\ mach.status = "run"

ExecStack ==
    /\ Running
    /\ OpClass(cg.out[mach.ip]) = "stack"
    /\ mach' = exec_stack(mach, cg.out[mach.ip])
    /\ UNCHANGED <<driverVars, bcVars, cliVars>>

ExecMove ==
    /\ Running
    /\ OpClass(cg.out[mach.ip]) = "move"
    /\ mach' = exec_move(mach, cg.out[mach.ip])
    /\ UNCHANGED <<driverVars, bcVars, cliVars>>

ExecCall ==
    /\ Running
    /\ OpClass(cg.out[mach.ip]) = "call"
    /\ mach' = exec_call(mach, cg.out[mach.ip])
    /\ UNCHANGED <<driverVars, bcVars, cliVars>>

ExecBranch ==
    /\ Running
    /\ OpClass(cg.out[mach.ip]) = "branch"
    /\ mach' = exec_branch(mach, cg.out[mach.ip], cg.out)
    /\ UNCHANGED <<driverVars, bcVars, cliVars>>

ExecSkip ==
    /\ Running
    /\ OpClass(cg.out[mach.ip]) = "skip"
    /\ mach' = step(mach)
    /\ UNCHANGED <<driverVars, bcVars, cliVars>>

ExecRet ==
    /\ Running
    /\ OpClass(cg.out[mach.ip]) = "ret"
    /\ mach' = exec_ret(mach)
    /\ UNCHANGED <<driverVars, bcVars, cliVars>>

NextRun ==
    \/ BCWalk
    \/ SemVisit
    \/ CGEnter
    \/ CGVisit
    \/ RunStart
    \/ ExecStack
    \/ ExecMove
    \/ ExecCall
    \/ ExecBranch
    \/ ExecSkip
    \/ ExecRet

SpecRun == InitRun /\ [][NextRun]_vars

\* the passes and the processor take their next step whenever they can
FairRun == SpecRun /\ WF_vars(NextRun)

(***************************************************************************)
(* C32: the initializer sees the previous binding.                         *)
(***************************************************************************)
\* a declaration whose initializer mentions the declared name
IsSelfInit(st) ==
    st.kind = "S_DECL" /\ st.expr # <<>> /\ Mentions(st.expr[1], st.name)

\* a load or address computation on a frame slot
SlotReads == {"mov rax, [rbp+k]", "lea rax, [rbp+k]"}

\* C32: in `let a = <init>` with a mentioned in <init>, each pass
\* resolves the a of <init> to the binding that existed before the
\* declaration: the analyzer types it from the table it was handed, the
\* borrow checker moves the entry that was tracked before and adds a
\* fresh one, and the generator reads the slot that existed before; the
\* text never reads the slot being declared before storing to it.
C32_InitSeesPrevious ==
    [][/\ (phase = "sem" /\ sem.status = "run" /\ IsSelfInit(prog[pc])) =>
             LET x == prog[pc].name
                 s0 == bc_run(BCInit, SubSeq(prog, 1, pc - 1), 1)
                 s1 == visit_stmt(s0, prog[pc])
                 i == find_var(s0.vars, x)
             IN  /\ Accepted(sem') =>
                       /\ Resolve(CurTab(sem), x) # <<>>
                       /\ \A e \in IdentNodes(prog'[pc].expr[1]) :
                              <<e.type>> = Resolve(CurTab(sem), e.name)
                 /\ Resolve(CurTab(sem), x) = <<>> => ~Accepted(sem')
                 /\ (s0.status = "run" /\ Accepted(s1)) =>
                       /\ i # 0
                       /\ Len(s1.vars) = Len(s0.vars) + 1
                       /\ s1.vars[1].valid
                       /\ s1.vars[i + 1] = [s0.vars[i] EXCEPT !.valid = FALSE]
       /\ (phase = "cg" /\ cg.status = "run" /\ IsSelfInit(prog[pc])) =>
             \A i \in 1..Len(NewOut) :
                NewOut[i].op \in SlotReads =>
                   /\ NewOut[i].k # cg'.slots[1].offset
                   /\ NewOut[i].k = MostRecentOffset(cg.slots, prog[pc].name)
       /\ (Running /\ cg.out[mach.ip].op \in SlotReads) =>
             cg.out[mach.ip].k \in DOMAIN mach.slotval]_vars

(***************************************************************************)
(* C33: the contents of a slot are preserved.                              *)
(***************************************************************************)
\* the addresses of the slots a declaration has stored to
StoredSlots(m) == {m.rbp + (k \div 8) : k \in DOMAIN m.slotval}

\* C33: when the text is executed, a push never writes to a slot that a
\* declaration has stored to, and a load of such a slot yields the value
\* its declaration stored last.
C33_SlotsPreserved ==
    [][Running =>
          LET l == cg.out[mach.ip] IN
          /\ l.op \in {"push", "push imm"} =>
                (mach.rsp - 1) \notin StoredSlots(mach)
          /\ (l.op = "mov rax, [rbp+k]" /\ l.k \in DOMAIN mach.slotval) =>
                mach'.rax = mach.slotval[l.k]]_vars

(***************************************************************************)
(* C34: moves and borrows do not depend on the path.                       *)
(***************************************************************************)
\* the next node is the then_s or else_s of an if, or the body of a while
InBranch(s) ==
    s.stack # <<>> /\ Top(s.stack).f \in {"THEN", "THEN_E", "ELSE", "WHILE"}

\* the node opens no nested statement list
IsLeaf(st) == st.kind \notin {"S_BLOCK", "S_IF", "S_WHILE", "END"}

\* the frame below a block's frame (NONE at the root)
Below(stack) ==
    IF Len(stack) >= 2 THEN stack[Len(stack) - 1].f ELSE "NONE"

\* C34: one tracking state goes through the condition, then_s and else_s
\* of an if and through the body of a while, which is visited once: a
\* then_s that returns hands its state to else_s, a body that returns
\* ends the while; a move in a branch or body is accepted as anywhere
\* else; no visit, and no return from an if or while, undoes a move or a
\* borrow of an entry that stays tracked; and a moved name is rejected in
\* the else branch and after the statement.
C34_PathInsensitive ==
    [][n' = n + 1 =>
          /\ Accepted(bc') =>
                /\ \A k \in 1..Len(bc.vars) :
                      k <= Len(bc'.vars) =>
                         LET v == FromTail(bc.vars, k)
                             w == FromTail(bc'.vars, k)
                         IN  /\ ~v.valid => ~w.valid
                             /\ w.imm_count >= v.imm_count
                             /\ v.mut_borrowed => w.mut_borrowed
                /\ (InBranch(bc) /\ IsLeaf(last')) =>
                      IF Top(bc.stack).f = "THEN_E"
                      THEN bc'.stack = Pop(bc.stack) \o <<Frame("ELSE", 0)>>
                      ELSE /\ Len(bc'.stack) < Len(bc.stack)
                           /\ bc'.stack
                                 = SubSeq(bc.stack, 1, Len(bc'.stack) - 1)
                                   \o <<Top(bc'.stack)>>
                /\ (last'.kind = "END" /\ Below(bc.stack) = "THEN_E") =>
                      /\ Top(bc'.stack).f = "ELSE"
                      /\ Len(bc'.stack) = Len(bc.stack) - 1
                /\ (last'.kind = "END"
                       /\ Below(bc.stack) \in {"THEN", "ELSE", "WHILE"}) =>
                      Len(bc'.stack) <= Len(bc.stack) - 2
          /\ \A x \in Names :
                LET i == find_var(bc.vars, x) IN
                /\ (/\ InBranch(bc)
                    /\ IsDeclOf(last', "E_IDENT", x)
                    /\ i # 0
                    /\ bc.vars[i].valid
                    /\ bc.vars[i].imm_count = 0
                    /\ ~bc.vars[i].mut_borrowed) =>
                       /\ Accepted(bc')
                       /\ bc'.vars[i + 1] = [bc.vars[i] EXCEPT !.valid = FALSE]
                /\ (/\ IsMoved(bc, x)
                    /\ \/ IsDeclOf(last', "E_IDENT", x)
                       \/ IsDeclOf(last', "E_ADDR", x)
                       \/ IsDeclOf(last', "E_MUTADDR", x)
                       \/ last'.kind \in {"S_IF", "S_WHILE"}
                             /\ last'.expr[1] = expr_ident(x)) =>
                       ~Accepted(bc')]_vars

\* if c <let b = a> else <a use of a>: the use in else_s has just been
\* rejected because then_s moved a
C34_Witness ==
    /\ bc.status = "use of moved value"
    /\ Top(bc.stack).f = "ELSE"
    /\ own # <<>>
    /\ own[1].how = "move"
    /\ own[1].id = n - 1

(***************************************************************************)
(* C35: termination of the passes.                                         *)
(***************************************************************************)
PassesEnded == phase \in {"exit0", "exit1"}

\* a step of a pass enters the next node of the tree, never a node again
\* and never a node beyond the tree, and the pass has ended when the last
\* node has been entered
VisitsAdvance ==
    CASE phase = "borrow_check" ->
           /\ n' = n + 1 /\ n' <= Len(prog) /\ last' = prog[n']
           /\ n' = Len(prog) => phase' # "borrow_check"
      [] phase = "sem" ->
           /\ pc <= Len(prog)
           /\ last' = prog'[pc]
           /\ IF phase' = "sem" THEN pc' = pc + 1 /\ pc < Len(prog)
              ELSE phase' \in {"cg", "exit1"}
      [] phase = "cg" /\ cg.status = "run" ->
           /\ pc <= Len(prog)
           /\ last' = prog[pc]
           /\ pc' = pc + 1
           /\ IF phase' = "cg" THEN pc < Len(prog)
              ELSE phase' \in {"exit0", "exit1"}
      [] OTHER -> TRUE

\* C35: on every finite tree each of borrow_check, semantic_check and
\* code generation enters each node at most once, in order, whatever
\* while statements the tree has, and ends, by returning or by ending the
\* process with an error.
C35_Termination == [][VisitsAdvance]_vars /\ <>PassesEnded

\* the three passes have returned on a tree with a while
C35_Witness ==
    /\ phase = "exit0"
    /\ mach.status = "off"
    /\ bc.status = "ok"
    /\ \E i \in 1..Len(prog) : prog[i].kind = "S_WHILE"

(***************************************************************************)
(* C36: bookkeeping of the depth.                                          *)
(***************************************************************************)
\* the number of visit_stmt calls on a block that have not returned
OpenBlockCalls(stack) ==
    Cardinality({i \in 1..Len(stack) : stack[i].f = "BLOCK"})

DepthOK ==
    /\ bc.depth = OpenBlockCalls(bc.stack)
    /\ \A i \in 1..Len(bc.vars) :
          bc.vars[i].scope_depth >= 1 /\ bc.vars[i].scope_depth <= bc.depth
    /\ \A i, j \in 1..Len(bc.vars) :
          i < j => bc.vars[i].scope_depth >= bc.vars[j].scope_depth
    /\ bc.status = "ok" => (bc.depth = 0 /\ bc.vars = <<>>)

\* the counter goes up by one when a block is entered, down by one when
\* its loop has ended, and is left alone by every other visit
DepthSteps ==
    n' = n + 1 =>
        bc'.depth = bc.depth
                    + (CASE last'.kind = "S_BLOCK" -> 1
                         [] last'.kind = "END" -> -1
                         [] OTHER -> 0)

\* C36: during borrow_check every tracked entry's declaration depth is
\* between 1 and the current depth, the list is ordered from head to tail
\* by non-increasing depth, the depth is the number of blocks entered and
\* not yet left (so it is after a block what it was before), and when
\* borrow_check returns the depth is 0 and no entry remains.
C36_DepthBookkeeping == []DepthOK /\ [][DepthSteps]_vars

\* an inner block has ended: its entries are gone, the outer ones remain
C36_Witness ==
    /\ bc.status = "run"
    /\ last.kind = "END"
    /\ bc.depth = 1
    /\ gone # {}
    /\ Len(bc.vars) >= 2

====
